---- MODULE Spec2Model ----
(***************************************************************************)
(* The capability dispatcher and line transport of the task manager MCP    *)
(* server (task-manager-mcp-server.js): the registry maps of the `server`  *)
(* object, server.handleRequest and its four helpers, and the readline    *)
(* 'line' listener that feeds it, run on Node's event loop.                *)
(***************************************************************************)
EXTENDS Integers, Sequences, FiniteSets, TLC

(***************************************************************************)
(* Bounds of the model.                                                    *)
(***************************************************************************)
\* longest sequence of core lines fed to stdin
MaxLines == 2

(***************************************************************************)
(* JavaScript values.  A value is a tuple of strings: its type tag         *)
(* followed by its text.  A string is <<"string">> followed by the pieces  *)
(* of its text, so that a template literal is the concatenation of the     *)
(* pieces of its parts; URIs are kept character by character.              *)
(***************************************************************************)
Undefined == <<"undefined">>
JsNull == <<"null">>
JsNum(t) == <<"number", t>>
JsBool(t) == <<"boolean", t>>
JsStr(t) == <<"string", t>>
JsChars(cs) == <<"string">> \o cs
JsObject(t) == <<"object", t>>

IsString(v) == v[1] = "string"

\* ToBoolean: what `!v` and `v || w` test
Truthy(v) ==
  CASE v[1] = "undefined" -> FALSE
    [] v[1] = "null" -> FALSE
    [] v[1] = "number" -> v[2] # "0"
    [] v[1] = "boolean" -> v[2] = "true"
    [] v[1] = "string" -> \E i \in 2..Len(v) : v[i] # ""
    [] OTHER -> TRUE

\* the pieces a value contributes to a template literal `${v}`
ToText(v) ==
  CASE v[1] = "string" -> Tail(v)
    [] v[1] = "undefined" -> <<"undefined">>
    [] v[1] = "null" -> <<"null">>
    [] v[1] = "object" -> <<"[object Object]">>
    [] OTHER -> <<v[2]>>

\* `prefix${v}` and 'prefix' + v
Template(prefix, v) == <<"string", prefix>> \o ToText(v)

Digit == <<"0", "1", "2", "3", "4", "5", "6", "7", "8", "9">>

RECURSIVE Decimal(_)
Decimal(n) == IF n < 10 THEN Digit[n + 1]
              ELSE Decimal(n \div 10) \o Digit[(n % 10) + 1]

\* the number Date.now() returns at clock value t
DateNow(t) == JsNum(Decimal(t))

(***************************************************************************)
(* Strings kept character by character, and the String methods the        *)
(* dispatcher uses on them.                                                *)
(***************************************************************************)
StartsWith(s, p) == Len(s) >= Len(p) /\ SubSeq(s, 1, Len(p)) = p

\* first position (from 1) at which p occurs in s, 0 when it does not
IndexOf(s, p) ==
  LET hits == {i \in 1..(Len(s) - Len(p) + 1) : SubSeq(s, i, i + Len(p) - 1) = p}
  IN IF hits = {} THEN 0 ELSE CHOOSE i \in hits : \A j \in hits : i <= j

\* String.prototype.split with a non-empty separator
RECURSIVE Split(_, _)
Split(s, sep) ==
  LET i == IndexOf(s, sep)
  IN IF i = 0 THEN <<s>>
     ELSE <<SubSeq(s, 1, i - 1)>> \o Split(SubSeq(s, i + Len(sep), Len(s)), sep)

C_tasks == <<"t", "a", "s", "k", "s", ":", "/", "/">>
C_list == <<"l", "i", "s", "t">>
C_task == <<"t", "a", "s", "k", "/">>
C_taskId == <<"{", "t", "a", "s", "k", "I", "d", "}">>
P_tasksList == C_tasks \o C_list
P_tasksTask == C_tasks \o C_task \o C_taskId

\* templates an embedding may register besides the shipped ones
P_tasksAny == C_tasks \o <<"{", "k", "i", "n", "d", "}", "/", "{", "i", "d", "}">>
C_other == <<"o", "t", "h", "e", "r", ":", "/", "/">>
P_otherX == C_other \o <<"x", "/", "{", "i", "d", "}">>
P_otherAny == C_other \o <<"{", "a", "}", "/", "{", "b", "}">>
P_tasksCategory ==
  C_tasks \o <<"c", "a", "t", "e", "g", "o", "r", "y", "/", "{", "n", "a", "m", "e", "}">>

(***************************************************************************)
(* The registry: five insertion-ordered Maps, kept as sequences of         *)
(* entries with distinct names.                                            *)
(***************************************************************************)
MapHas(m, name) == \E i \in 1..Len(m) : m[i].name = name

MapIndex(m, name) == CHOOSE i \in 1..Len(m) : m[i].name = name

MapGet(m, name) == m[MapIndex(m, name)]

\* (variant) a Map that puts a new key first
MapSetFirst(m, entry) ==
  IF MapHas(m, entry.name)
  THEN [m EXCEPT ![MapIndex(m, entry.name)] = entry]
  ELSE <<entry>> \o m

\* (variant) a Map that keeps the first value set under a key
MapSetOnce(m, entry) ==
  IF MapHas(m, entry.name) THEN m ELSE Append(m, entry)

\* (variant) a Map in which a key that is set again moves to the end
MapSetMoved(m, entry) ==
  Append(SelectSeq(m, LAMBDA e : e.name # entry.name), entry)

\* Map.prototype.set: an existing key keeps its position, a new key goes last
MapSet(m, entry) ==
  IF MapHas(m, entry.name)
  THEN [m EXCEPT ![MapIndex(m, entry.name)] = entry]
  ELSE Append(m, entry)

\* a request field used as a Map key: only a string can equal a registered name
KeyOf(v) == IF IsString(v) /\ Len(v) = 2 THEN v[2] ELSE ""

HasKey(m, v) == IsString(v) /\ Len(v) = 2 /\ MapHas(m, v[2])

ResourceTemplate(pattern, description) ==
  [pattern |-> pattern, description |-> description]

RegisterResource(m, name, template, handler) ==
  MapSet(m, [name |-> name, template |-> template, handler |-> handler])

RegisterTool(m, name, parameters, handler) ==
  MapSet(m, [name |-> name, parameters |-> parameters, handler |-> handler])

RegisterInfo(m, name, description, usage) ==
  MapSet(m, [name |-> name, description |-> description, usage |-> usage])

Param(name, type, required) == [name |-> name, type |-> type, required |-> required]

\* the registrations the module makes while it loads, made on the Map m
RegisterShippedResources(m) ==
  RegisterResource(
    RegisterResource(m, "tasks",
      ResourceTemplate(P_tasksList,
        "Retrieves a list of all tasks in the system with their details"),
      "resource:tasks"),
    "task",
    ResourceTemplate(P_tasksTask, "Retrieves details of a specific task by its ID"),
    "resource:task")

ShippedResources == RegisterShippedResources(<<>>)

P_listTasks == <<Param("status", "enum", FALSE), Param("priority", "enum", FALSE)>>
P_createTask ==
  <<Param("task", "string", TRUE), Param("category", "string", TRUE),
    Param("priority", "enum", FALSE), Param("status", "enum", FALSE)>>
P_updateTask ==
  <<Param("taskId", "number", TRUE), Param("task", "string", FALSE),
    Param("category", "string", FALSE), Param("priority", "enum", FALSE),
    Param("status", "enum", FALSE)>>
P_deleteTask == <<Param("taskId", "number", TRUE)>>

ShippedTools ==
  RegisterTool(RegisterTool(RegisterTool(RegisterTool(<<>>,
    "listTasks", P_listTasks, "tool:listTasks"),
    "createTask", P_createTask, "tool:createTask"),
    "updateTask", P_updateTask, "tool:updateTask"),
    "deleteTask", P_deleteTask, "tool:deleteTask")

ShippedToolInfo ==
  RegisterInfo(RegisterInfo(RegisterInfo(RegisterInfo(<<>>,
    "listTasks",
    "Lists all tasks in the system, optionally filtered by status and/or priority",
    "examples:3"),
    "createTask", "Creates a new task with the specified details", "examples:2"),
    "updateTask",
    "Updates an existing task with new values for one or more fields", "examples:3"),
    "deleteTask", "Permanently deletes a task from the system", "examples:1")

ShippedPrompts ==
  RegisterTool(RegisterTool(RegisterTool(RegisterTool(<<>>,
    "listAllTasks", <<>>, "prompt:listAllTasks"),
    "createTaskNaturalLanguage", <<Param("description", "string", TRUE)>>,
    "prompt:createTaskNaturalLanguage"),
    "createNewTask",
    <<Param("task", "string", TRUE), Param("category", "string", TRUE),
      Param("priority", "enum", FALSE)>>,
    "prompt:createNewTask"),
    "taskProgressReport", <<Param("status", "enum", FALSE)>>,
    "prompt:taskProgressReport")

ShippedPromptInfo ==
  RegisterInfo(RegisterInfo(RegisterInfo(RegisterInfo(<<>>,
    "listAllTasks", "Lists all tasks grouped by category with priority summary",
    "Use this prompt when you want to see all tasks organized by category with priority distribution"),
    "createTaskNaturalLanguage",
    "Creates a task from a natural language description by extracting key details",
    "Use this when you have a detailed task description and want the AI to determine the best category and priority"),
    "createNewTask",
    "Creates a new task with specific title, category and optional priority",
    "Use this when you have specific task details to create"),
    "taskProgressReport",
    "Generates a progress report on tasks with key statistics and insights",
    "Use this when you need an overview of task progress and areas needing attention")

\* server.tool(name, parameters, handler) called by an embedding with a handler
\* of its own, after the shipped registrations: to the dispatcher a handler is
\* an opaque callable (info defaults to {})
EmbeddedTool == "echo"

(***************************************************************************)
(* Input lines and decoded requests.  A line is its text class and, when   *)
(* it is JSON, the value it decodes to.  A decoded value is a record of    *)
(* the properties the dispatcher reads; `prim` is the value itself when it *)
(* is not an object (every property of a primitive or an array that the    *)
(* dispatcher reads is then undefined).                                    *)
(***************************************************************************)
IsObject == <<"object", "request">>

Request(type, id, uri, tool, prompt, parameters) ==
  [prim |-> IsObject, type |-> type, id |-> id, uri |-> uri, tool |-> tool,
   prompt |-> prompt, parameters |-> parameters]

Primitive(v) ==
  [prim |-> v, type |-> Undefined, id |-> Undefined, uri |-> Undefined,
   tool |-> Undefined, prompt |-> Undefined, parameters |-> Undefined]

JsonLine(value) == [text |-> "json", value |-> value]
TextLine(class) == [text |-> class, value |-> Primitive(Undefined)]

\* (variant) a listener that does not trim the line
TrimNothing(line) == IF line.text = "empty" THEN "" ELSE line.text

\* line.trim(): empty for the empty line and for a line of whitespace
Trim(line) == IF line.text \in {"empty", "blank"} THEN "" ELSE line.text

ParseMessage == "Unexpected token o in JSON at position 1"

\* (variant) a parser that accepts every text
JsonParseAnything(line) == [ok |-> TRUE, value |-> line.value, message |-> ""]

\* JSON.parse(line): the decoded value, or a SyntaxError with its message
JsonParse(line) ==
  IF line.text = "json"
  THEN [ok |-> TRUE, value |-> line.value, message |-> ""]
  ELSE [ok |-> FALSE, value |-> Primitive(Undefined), message |-> ParseMessage]

(***************************************************************************)
(* Responses.  A response object has the properties id, type and error     *)
(* (Undefined when the object has no such property) and a body: the        *)
(* discovery manifest, or the properties spread in from a handler result.  *)
(***************************************************************************)
NoBody ==
  [kind |-> "none", server |-> "", tools |-> <<>>, resources |-> <<>>,
   prompts |-> <<>>, payload |-> "", items |-> <<>>]

Response(id, type, error, body) ==
  [id |-> id, type |-> type, error |-> error, body |-> body]

ErrorResponse(id, error) == Response(id, Undefined, error, NoBody)

\* what a handler returns: an object that may have id, type and error
\* properties of its own besides its payload
Result(id, type, error, payload) ==
  [id |-> id, type |-> type, error |-> error, payload |-> payload, items |-> <<>>]

PlainResult(payload) == Result(Undefined, Undefined, Undefined, payload)

Override(own, spread) == IF spread # Undefined THEN spread ELSE own

\* { id, type: '<kind>_response', ...result }
Spread(id, type, result) ==
  Response(Override(id, result.id), Override(JsStr(type), result.type),
           Override(Undefined, result.error),
           [NoBody EXCEPT !.kind = "result", !.payload = result.payload,
                          !.items = result.items])

(***************************************************************************)
(* What the dispatcher decides for a request before any handler runs:      *)
(* a response ("respond", written after `hops` microtask turns), a handler *)
(* to call ("call") or an exception thrown ("throw").                      *)
(***************************************************************************)
NoCall ==
  [cap |-> "", name |-> "", handler |-> "", id |-> Undefined, type |-> "",
   prefix |-> "", href |-> Undefined, parameters |-> Undefined, bindings |-> <<>>]

Respond(resp, hops) ==
  [kind |-> "respond", resp |-> resp, hops |-> hops, message |-> "",
   call |-> NoCall, log |-> <<>>]

Throw(message) ==
  [kind |-> "throw", resp |-> ErrorResponse(Undefined, Undefined), hops |-> 0,
   message |-> message, call |-> NoCall, log |-> <<>>]

Call(call) ==
  [kind |-> "call", resp |-> ErrorResponse(Undefined, Undefined), hops |-> 0,
   message |-> "", call |-> call, log |-> <<>>]

\* the same outcome, the lines in log having been printed on the way
Logged(outcome, log) == [outcome EXCEPT !.log = log]

Binding(name, value) == [name |-> name, value |-> value]

\* handleDiscovery(id)
ServerName == "Task Management API Server"

DescriptionOr(description, fallback) ==
  IF description # "" THEN description ELSE fallback

InfoDescription(info, name) ==
  IF MapHas(info, name) THEN MapGet(info, name).description ELSE ""

\* the Zod class of a declared parameter: .optional() wraps the schema
ZodTypeName(param) ==
  IF ~param.required THEN "ZodOptional"
  ELSE CASE param.type = "string" -> "ZodString"
         [] param.type = "number" -> "ZodNumber"
         [] param.type = "enum" -> "ZodEnum"
         [] OTHER -> "ZodType"

\* JSON.stringify of the parameters object a tool or prompt was registered
\* with: an object with one member per parameter, keyed by its name, whose
\* value is the serialised Zod schema
SchemaMapJson(parameters) ==
  [json |-> "object",
   members |-> [n \in 1..Len(parameters) |->
                  [key |-> parameters[n].name, value |-> ZodTypeName(parameters[n])]]]

\* the tools, resources and prompts arrays; an entry has no usage property
Manifest(srv) ==
  [kind |-> "discovery",
   server |-> ServerName,
   tools |->
     [i \in 1..Len(srv.tools) |->
        [name |-> srv.tools[i].name,
         description |->
           DescriptionOr(InfoDescription(srv.toolInfo, srv.tools[i].name),
                         "Tool: " \o srv.tools[i].name),
         parameters |-> SchemaMapJson(srv.tools[i].parameters),
         usage |-> Undefined]],
   resources |->
     [i \in 1..Len(srv.resources) |->
        [name |-> srv.resources[i].name,
         description |->
           DescriptionOr(srv.resources[i].template.description,
                         "Resource: " \o srv.resources[i].name),
         template |-> srv.resources[i].template.pattern]],
   prompts |->
     [i \in 1..Len(srv.prompts) |->
        [name |-> srv.prompts[i].name,
         description |->
           DescriptionOr(InfoDescription(srv.promptInfo, srv.prompts[i].name),
                         "Prompt: " \o srv.prompts[i].name),
         parameters |-> SchemaMapJson(srv.prompts[i].parameters),
         usage |-> Undefined]],
   payload |-> "",
   items |-> <<>>]

\* (variant) a manifest that lists every tool twice
HandleDiscoveryTwice(id, srv) ==
  Response(id, JsStr("discover_response"), Undefined,
           [Manifest(srv) EXCEPT !.tools = @ \o @])

HandleDiscovery(id, srv) ==
  Response(id, JsStr("discover_response"), Undefined, Manifest(srv))

\* parameters || {}
EmptyObject == JsObject("{}")

\* (variant) the parameters handed on as they were sent
ParametersAsSent(parameters) == parameters

\* parameters || {}
ParametersOrEmpty(parameters) ==
  IF Truthy(parameters) THEN parameters ELSE EmptyObject

\* (variant) an invoke that calls a handler without looking the tool up
HandleInvokeUnresolved(id, request, srv) ==
  Call([NoCall EXCEPT
    !.cap = "tool", !.name = KeyOf(request.tool),
    !.handler = "tool:" \o KeyOf(request.tool),
    !.id = id, !.type = "invoke_response",
    !.prefix = "Tool invocation error: ",
    !.parameters = ParametersOrEmpty(request.parameters)])

\* handleInvoke(id, request) up to the call of the handler
HandleInvoke(id, request, srv) ==
  IF ~HasKey(srv.tools, request.tool)
  THEN Respond(ErrorResponse(id, Template("Tool not found: ", request.tool)), 2)
  ELSE Call([NoCall EXCEPT
         !.cap = "tool", !.name = KeyOf(request.tool),
         !.handler = MapGet(srv.tools, KeyOf(request.tool)).handler,
         !.id = id, !.type = "invoke_response",
         !.prefix = "Tool invocation error: ",
         !.parameters = ParametersOrEmpty(request.parameters)])

\* handlePrompt(id, request) up to the call of the handler
HandlePrompt(id, request, srv) ==
  IF ~HasKey(srv.prompts, request.prompt)
  THEN Respond(ErrorResponse(id, Template("Prompt not found: ", request.prompt)), 2)
  ELSE Call([NoCall EXCEPT
         !.cap = "prompt", !.name = KeyOf(request.prompt),
         !.handler = MapGet(srv.prompts, KeyOf(request.prompt)).handler,
         !.id = id, !.type = "prompt_response",
         !.prefix = "Prompt execution error: ",
         !.parameters = ParametersOrEmpty(request.parameters)])

(***************************************************************************)
(* new URL(uri) for the URIs of this model: text made of letters, digits,  *)
(* '/' and a single ':' that ends a scheme which is not one of the special *)
(* schemes (http, https, ws, wss, ftp, file).                              *)
(***************************************************************************)
Upper == <<"A", "B", "C", "D", "E", "F", "G", "H", "I", "J", "K", "L", "M",
           "N", "O", "P", "Q", "R", "S", "T", "U", "V", "W", "X", "Y", "Z">>
Lower == <<"a", "b", "c", "d", "e", "f", "g", "h", "i", "j", "k", "l", "m",
           "n", "o", "p", "q", "r", "s", "t", "u", "v", "w", "x", "y", "z">>

IsUpper(c) == \E i \in 1..Len(Upper) : Upper[i] = c
IsLower(c) == \E i \in 1..Len(Lower) : Lower[i] = c
IsDigit(c) == \E i \in 1..Len(Digit) : Digit[i] = c

ToLower(c) == IF IsUpper(c) THEN Lower[CHOOSE i \in 1..Len(Upper) : Upper[i] = c] ELSE c

LowerCase(cs) == [i \in 1..Len(cs) |-> ToLower(cs[i])]

\* JS substring(from) and substring(from, to), positions from 0
SubstringFrom(cs, from) == SubSeq(cs, from + 1, Len(cs))
Substring(cs, from, to) == SubSeq(cs, from + 1, to)

ValidScheme(cs) ==
  /\ cs # <<>>
  /\ IsUpper(cs[1]) \/ IsLower(cs[1])
  /\ \A i \in 1..Len(cs) : IsUpper(cs[i]) \/ IsLower(cs[i]) \/ IsDigit(cs[i])

InvalidUrl == [ok |-> FALSE, protocol |-> <<>>, pathname |-> <<>>, href |-> <<>>]

ParseURL(cs) ==
  LET colon == IndexOf(cs, <<":">>)
      scheme == LowerCase(SubSeq(cs, 1, colon - 1))
      rest == SubSeq(cs, colon + 1, Len(cs))
      afterSlashes == SubstringFrom(rest, 2)
      slash == IndexOf(afterSlashes, <<"/">>)
      host == IF slash = 0 THEN afterSlashes ELSE SubSeq(afterSlashes, 1, slash - 1)
      path == IF slash = 0 THEN <<>> ELSE SubstringFrom(afterSlashes, slash - 1)
  IN IF colon = 0 \/ ~ValidScheme(SubSeq(cs, 1, colon - 1)) THEN InvalidUrl
     ELSE IF StartsWith(rest, <<"/", "/">>)
     THEN [ok |-> TRUE, protocol |-> scheme \o <<":">>, pathname |-> path,
           href |-> scheme \o <<":", "/", "/">> \o host \o path]
     ELSE [ok |-> TRUE, protocol |-> scheme \o <<":">>, pathname |-> rest,
           href |-> scheme \o <<":">> \o rest]

(***************************************************************************)
(* matchUri(uri, pattern): null (no match) or the params object.           *)
(***************************************************************************)
NoMatch(log) == [match |-> FALSE, bindings |-> <<>>, log |-> log]
Match(bindings, log) == [match |-> TRUE, bindings |-> bindings, log |-> log]

\* a[i] for a JS array index i (from 0): undefined beyond the end
PartAt(parts, i) == IF i + 1 <= Len(parts) THEN JsChars(parts[i + 1]) ELSE Undefined

EndsWith(s, p) == Len(s) >= Len(p) /\ SubSeq(s, Len(s) - Len(p) + 1, Len(s)) = p

\* the loop over the pattern parts from index i on; params are the bindings
\* made and log the lines printed so far
RECURSIVE MatchParts(_, _, _, _, _)
MatchParts(patternParts, uriParts, i, params, log) ==
  IF i >= Len(patternParts) THEN Match(params, Append(log, "Match successful!"))
  ELSE LET template == patternParts[i + 1]
           part == PartAt(uriParts, i)
           compared == Append(log, "Comparing part")
       IN IF StartsWith(template, <<"{">>) /\ EndsWith(template, <<"}">>)
          THEN MatchParts(patternParts, uriParts, i + 1,
                 MapSet(params,
                        Binding(Substring(template, 1, Len(template) - 1), part)),
                 Append(compared, "Param match"))
          ELSE IF JsChars(template) # part
          THEN NoMatch(Append(compared, "Mismatch at part"))
          ELSE MatchParts(patternParts, uriParts, i + 1, params, compared)

MatchUri(uri, pattern) ==
  LET patternParts == Split(pattern, <<"/">>)
      uriParts == Split(uri.pathname, <<"/">>)
      taskPattern == SubstringFrom(pattern, Len(C_tasks))
      taskUri == SubstringFrom(uri.pathname, 2)
      paramStart == IndexOf(taskPattern, <<"{">>) - 1
      paramEnd == IndexOf(taskPattern, <<"}">>) - 1
      special == StartsWith(pattern, C_tasks) /\ uri.protocol = <<"t", "a", "s", "k", "s", ":">>
      entered == IF special
                 THEN <<"Matching URI", "Special case for tasks:// protocol", "Comparing">>
                 ELSE <<"Matching URI">>
      standard == Append(entered, "Standard matching")
  IN IF special /\ taskPattern = taskUri
     THEN Match(<<>>, Append(entered, "Direct match found!"))
     ELSE IF /\ special
             /\ paramStart >= 0
             /\ StartsWith(taskUri, C_task)
             /\ paramStart > 0
             /\ paramEnd > paramStart
     THEN Match(<<Binding(Substring(taskPattern, paramStart + 1, paramEnd),
                          JsChars(SubstringFrom(taskUri, paramStart)))>>,
                Append(entered, "Parameterized match found!"))
     ELSE IF ~StartsWith(uri.href, patternParts[1])
     THEN NoMatch(Append(standard, "Protocol mismatch"))
     ELSE MatchParts(patternParts, uriParts, 1, <<>>, standard)

(***************************************************************************)
(* handleResource(id, request) up to the call of a handler.                *)
(***************************************************************************)
\* (variant) the first entry registered, whatever its pattern
FirstRegistered(resources, pattern) == IF resources = <<>> THEN 0 ELSE 1

\* index of the first entry registered with this pattern, 0 when there is none
FirstWithPattern(resources, pattern) ==
  LET hits == {i \in 1..Len(resources) : resources[i].template.pattern = pattern}
  IN IF hits = {} THEN 0 ELSE CHOOSE i \in hits : \A j \in hits : i <= j

\* index of the first entry whose pattern matchUri accepts, 0 when there is none
FirstMatching(resources, url) ==
  LET hits == {i \in 1..Len(resources) : MatchUri(url, resources[i].template.pattern).match}
  IN IF hits = {} THEN 0 ELSE CHOOSE i \in hits : \A j \in hits : i <= j

ResourceCall(id, entry, href, bindings) ==
  Call([NoCall EXCEPT
    !.cap = "resource", !.name = entry.name, !.handler = entry.handler,
    !.id = id, !.type = "resource_response",
    !.prefix = "Resource handler error: ",
    !.href = href, !.bindings = bindings])

NotAString(uri) ==
  IF uri = Undefined
  THEN "Cannot read properties of undefined (reading 'startsWith')"
  ELSE IF uri = JsNull
  THEN "Cannot read properties of null (reading 'startsWith')"
  ELSE "uri.startsWith is not a function"

HandleTasksUri(id, uri, srv) ==
  LET path == Split(uri, C_tasks)[2]
      listEntry == FirstWithPattern(srv.resources, P_tasksList)
      taskEntry == FirstWithPattern(srv.resources, P_tasksTask)
      taskId == Split(path, C_task)[2]
  IN IF path = C_list /\ listEntry # 0
     THEN ResourceCall(id, srv.resources[listEntry], JsChars(uri), <<>>)
     ELSE IF StartsWith(path, C_task) /\ taskEntry # 0
     THEN ResourceCall(id, srv.resources[taskEntry], JsChars(uri),
            <<Binding(<<"t", "a", "s", "k", "I", "d">>, JsChars(taskId))>>)
     ELSE Respond(ErrorResponse(id,
            <<"string", "No matching resource handler for tasks URI: ">> \o uri), 2)

\* the lines matchUri prints for the entries 1..n, in order
RECURSIVE MatchLog(_, _, _)
MatchLog(resources, url, n) ==
  IF n = 0 THEN <<>>
  ELSE MatchLog(resources, url, n - 1) \o MatchUri(url, resources[n].template.pattern).log

HandleOtherUri(id, uri, srv) ==
  LET url == ParseURL(uri)
      entry == FirstMatching(srv.resources, url)
  IN IF ~url.ok THEN Throw("Invalid URL")
     ELSE IF entry # 0
     THEN Logged(ResourceCall(id, srv.resources[entry], JsChars(url.href),
                   MatchUri(url, srv.resources[entry].template.pattern).bindings),
                 MatchLog(srv.resources, url, entry))
     ELSE Logged(Respond(ErrorResponse(id,
                   <<"string", "No resource handler found for URI: ">> \o uri), 2),
                 MatchLog(srv.resources, url, Len(srv.resources)))

HandleResource(id, request, srv) ==
  IF ~IsString(request.uri) THEN Throw(NotAString(request.uri))
  ELSE IF StartsWith(Tail(request.uri), C_tasks)
  THEN HandleTasksUri(id, Tail(request.uri), srv)
  ELSE HandleOtherUri(id, Tail(request.uri), srv)

(***************************************************************************)
(* server.handleRequest(request) up to the call of a handler.              *)
(***************************************************************************)
\* (variant) request.id, nothing generated in its place
RequestIdAsSent(request, t) == request.id

\* request.id || 'request_' + Date.now()
RequestId(request, t) ==
  IF Truthy(request.id) THEN request.id ELSE Template("request_", DateNow(t))

\* !request || !request.type
InvalidFormat(request) == ~Truthy(request.prim) \/ ~Truthy(request.type)

\* the catch of handleRequest: an exception becomes { id, error: error.message }
Caught(id, outcome) ==
  IF outcome.kind = "throw"
  THEN Respond(ErrorResponse(id, JsStr(outcome.message)), 2)
  ELSE outcome

HandleRequest(request, t, srv) ==
  LET id == RequestId(request, t)
  IN IF InvalidFormat(request)
     THEN Respond(ErrorResponse(Undefined, JsStr("Invalid request format")), 1)
     ELSE Caught(id,
       CASE request.type = JsStr("discover") -> Respond(HandleDiscovery(id, srv), 2)
         [] request.type = JsStr("resource") -> HandleResource(id, request, srv)
         [] request.type = JsStr("invoke") -> HandleInvoke(id, request, srv)
         [] request.type = JsStr("prompt") -> HandlePrompt(id, request, srv)
         [] OTHER ->
              Respond(ErrorResponse(id,
                Template("Unsupported request type: ", request.type)), 1))

(***************************************************************************)
(* Handlers, as the dispatcher sees them.  Calling one returns a value,    *)
(* throws, or returns a promise that later resolves, rejects or stays      *)
(* pending for ever (a stalled external call).  The shipped tool and       *)
(* resource handlers are async functions that catch every failure of the   *)
(* call to the task store and resolve                                      *)
(* to their payload; the shipped prompt handlers are plain functions that  *)
(* return their messages.  An embedded handler may do anything.            *)
(***************************************************************************)
EmbeddedHandler == "tool:" \o EmbeddedTool

\* the handlers of the resources an embedding registers
EmbeddedResourceHandlers ==
  {"resource:any", "resource:byId", "resource:byAny", "resource:category"}

ShippedPromptHandlers ==
  {"prompt:listAllTasks", "prompt:createTaskNaturalLanguage",
   "prompt:createNewTask", "prompt:taskProgressReport"}

ShippedResourceHandlers == {"resource:tasks", "resource:task"}

ShippedToolHandlers ==
  {"tool:listTasks", "tool:createTask", "tool:updateTask", "tool:deleteTask"}

HandlerModes(handler) ==
  IF handler = EmbeddedHandler \/ handler \in EmbeddedResourceHandlers
  THEN {"return", "throw", "promise"}
  ELSE IF handler \in ShippedPromptHandlers THEN {"return"}
  ELSE {"promise"}

HandlerResults(handler) ==
  IF handler = EmbeddedHandler
  THEN {PlainResult("content"),
        Result(JsStr("from-handler"), JsStr("handler_type"), JsStr("handler error"),
               "content")}
  ELSE IF handler \in ShippedPromptHandlers THEN {PlainResult("messages")}
  ELSE IF handler \in ShippedResourceHandlers \cup EmbeddedResourceHandlers
  THEN {PlainResult("contents")}
  ELSE {PlainResult("content")}

\* (variant) shipped tool handlers without a try/catch of their own
HandlerErrorsEscaping(handler) ==
  IF handler = EmbeddedHandler \/ handler \in EmbeddedResourceHandlers
  THEN {"boom"}
  ELSE IF handler \in ShippedToolHandlers THEN {"connect ECONNREFUSED"} ELSE {}

\* the messages of the exceptions a handler may throw: the shipped handlers
\* catch their own
HandlerErrors(handler) ==
  IF handler = EmbeddedHandler \/ handler \in EmbeddedResourceHandlers
  THEN {"boom"} ELSE {}

(***************************************************************************)
(* The shipped handlers and the task store they call through              *)
(* makeApiRequest.                                                         *)
(***************************************************************************)
\* an object with string-valued properties: <<"object", key, value, ...>>
JsFields(pairs) == <<"object">> \o pairs

\* obj.key, undefined when the object has no such property
Field(obj, key) ==
  LET at == {n \in 1..Len(obj) : n % 2 = 0 /\ n < Len(obj) /\ obj[n] = key}
  IN IF obj[1] = "object" /\ at # {}
     THEN JsStr(obj[(CHOOSE n \in at : TRUE) + 1])
     ELSE Undefined

\* the value bound to a placeholder, undefined when there is none
BindingValue(bindings, name) ==
  LET at == {n \in 1..Len(bindings) : bindings[n].name = name}
  IN IF at = {} THEN Undefined ELSE bindings[CHOOSE n \in at : TRUE].value

RECURSIVE Join(_)
Join(cs) == IF cs = <<>> THEN "" ELSE Head(cs) \o Join(Tail(cs))

RECURSIVE StripZeros(_)
StripZeros(cs) ==
  IF Len(cs) > 1 /\ Head(cs) = "0" THEN StripZeros(Tail(cs)) ELSE cs

\* (variant) a comparison that never finds the id
NeverANumber(v) == "NaN"

\* Number(v) for undefined and for strings of this model, as decimal text
ToNumber(v) ==
  IF ~IsString(v) THEN "NaN"
  ELSE IF Join(Tail(v)) = "" THEN "0"
  ELSE IF \A n \in 2..Len(v) : IsDigit(v[n]) THEN Join(StripZeros(Tail(v)))
  ELSE "NaN"

\* what the handlers of a tool or prompt destructure from their argument
Updates(parameters) ==
  [task |-> Field(parameters, "task"), category |-> Field(parameters, "category"),
   priority |-> Field(parameters, "priority"), status |-> Field(parameters, "status")]

NoUpdates == [task |-> Undefined, category |-> Undefined, priority |-> Undefined,
              status |-> Undefined]

\* (variant) every field given is put in the request body
AsGiven(v) == v

\* if (x) requestBody.x = x
IfTruthy(v) == IF Truthy(v) THEN v ELSE Undefined

NoApiRequest == [method |-> "", endpoint |-> <<>>, body |-> NoUpdates]

ApiRequest(method, endpoint, body) ==
  [method |-> method, endpoint |-> endpoint, body |-> body]

\* the request a shipped handler hands to makeApiRequest when it is called
ApiRequestOf(call) ==
  LET given == Updates(call.parameters)
      truthy == [k \in DOMAIN given |-> IfTruthy(given[k])]
      taskId == ToText(Field(call.parameters, "taskId"))
  IN CASE call.handler \in {"tool:listTasks", "resource:tasks", "resource:task"} ->
            ApiRequest("GET", <<"/tasks">>, NoUpdates)
       [] call.handler = "tool:createTask" ->
            ApiRequest("POST", <<"/tasks">>,
              [truthy EXCEPT !.task = given.task, !.category = given.category])
       [] call.handler = "tool:updateTask" ->
            IF truthy = NoUpdates THEN NoApiRequest
            ELSE ApiRequest("PATCH", <<"/tasks/">> \o taskId, truthy)
       [] call.handler = "tool:deleteTask" ->
            ApiRequest("DELETE", <<"/tasks/">> \o taskId, NoUpdates)
       [] OTHER -> NoApiRequest

KeyMessage == "API_KEY environment variable is not defined. Please check your .env file."

\* how a call of makeApiRequest may end: with the data of the response, with
\* the request rejected (no response), with an HTTP error status, or, when
\* no API key is configured, with an exception before any request is made
ApiFailures == {"rejected", "status"}

\* (variant) a makeApiRequest that does not look at the API key
ApiOutcomesUnchecked(st) == {"ok"} \cup st.failures

ApiOutcomes(st) == IF st.apiKey THEN {"ok"} \cup st.failures ELSE {"nokey"}

\* error.message of what makeApiRequest throws
ApiMessage(outcome) ==
  CASE outcome = "nokey" -> KeyMessage
    [] outcome = "status" -> "API Error (500): {}"
    [] OTHER -> "connect ECONNREFUSED"

\* the outcomes of the run of a handler: those of its call of makeApiRequest
Outcomes(call, st) ==
  IF ApiRequestOf(call) = NoApiRequest THEN {"ok"} ELSE ApiOutcomes(st)

NoMetadata == [id |-> Undefined, error |-> Undefined]

Item(type, uri, text, metadata) ==
  [type |-> type, uri |-> uri, text |-> text, metadata |-> metadata]

TextItem(text) == Item("text", Undefined, text, NoMetadata)

JsonItem == Item("json", Undefined, <<>>, NoMetadata)

WithItems(payload, items) == [PlainResult(payload) EXCEPT !.items = items]

\* ${x ? ` with status '${x}'` : ''}
Suffix(before, v) == IF Truthy(v) THEN <<before>> \o ToText(v) \o <<"'">> ELSE <<>>

\* what the shipped tool handlers return
ToolResult(call, outcome, st) ==
  LET ok == outcome = "ok"
      message == ApiMessage(outcome)
      given == Updates(call.parameters)
      taskId == ToText(Field(call.parameters, "taskId"))
  IN CASE call.handler = "tool:listTasks" ->
            IF ok
            THEN <<TextItem(<<"Found ", Decimal(Len(st.tasks)), " tasks">>
                            \o Suffix(" with status '", given.status)
                            \o Suffix(" and priority '", given.priority) \o <<".">>),
                   JsonItem>>
            ELSE <<TextItem(<<"Error listing tasks: ", message>>)>>
       [] call.handler = "tool:createTask" ->
            IF ok
            THEN <<TextItem(<<"Task created successfully with ID: ", "99">>), JsonItem>>
            ELSE <<TextItem(<<"Error creating task: ", message>>)>>
       [] call.handler = "tool:updateTask" ->
            IF ApiRequestOf(call) = NoApiRequest
            THEN <<TextItem(<<"No updates provided. Task remains unchanged.">>)>>
            ELSE IF ok
            THEN <<TextItem(<<"Task ">> \o taskId \o <<" updated successfully.">>),
                   JsonItem>>
            ELSE <<TextItem(<<"Error updating task: ", message>>)>>
       [] call.handler = "tool:deleteTask" ->
            IF ok
            THEN <<TextItem(<<"Task ">> \o taskId \o <<" deleted successfully.">>)>>
            ELSE <<TextItem(<<"Error deleting task: ", message>>)>>

TaskText(id) == <<"ID: ", id, "\nTask: ">>

\* what the shipped resource handlers return
ResourceResult(call, outcome, st) ==
  LET ok == outcome = "ok"
      message == ApiMessage(outcome)
      taskId == BindingValue(call.bindings, <<"t", "a", "s", "k", "I", "d">>)
      wanted == ToNumber(taskId)
      found == \E n \in 1..Len(st.tasks) : st.tasks[n] = wanted
  IN CASE call.handler = "resource:tasks" ->
            IF ok
            THEN [n \in 1..Len(st.tasks) |->
                    Item("", Template("tasks://task/", JsNum(st.tasks[n])),
                         TaskText(st.tasks[n]),
                         [id |-> JsNum(st.tasks[n]), error |-> Undefined])]
            ELSE <<Item("", JsStr("tasks://error"),
                        <<"Error retrieving tasks: ", message>>,
                        [id |-> Undefined, error |-> JsStr(message)])>>
       [] call.handler = "resource:task" ->
            IF ok /\ found
            THEN <<Item("", call.href, TaskText(wanted),
                        [id |-> JsNum(wanted), error |-> Undefined])>>
            ELSE IF ok
            THEN <<Item("", call.href,
                        <<"Task with ID ">> \o ToText(taskId) \o <<" not found">>,
                        [id |-> Undefined, error |-> JsStr("Task not found")])>>
            ELSE <<Item("", call.href,
                        <<"Error retrieving task ">> \o ToText(taskId)
                        \o <<": ", message>>,
                        [id |-> Undefined, error |-> JsStr(message)])>>

\* what the handler of a call returns when its run ends with the outcome
Results(call, outcome, st) ==
  IF call.handler \in ShippedToolHandlers
  THEN {WithItems("content", ToolResult(call, outcome, st))}
  ELSE IF call.handler \in ShippedResourceHandlers
  THEN {WithItems("contents", ResourceResult(call, outcome, st))}
  ELSE HandlerResults(call.handler)

\* updateTask returns without awaiting anything when it has nothing to send
CallModes(call) ==
  IF call.handler \in ShippedToolHandlers \cup ShippedResourceHandlers
  THEN IF ApiRequestOf(call) = NoApiRequest THEN {"return"} ELSE {"promise"}
  ELSE HandlerModes(call.handler)

\* if (!response.data.tasks || response.data.tasks.length === 0) console.log
EmptyLog(st) == IF st.tasks = <<>> THEN <<"API returned empty tasks array">> ELSE <<>>

\* what the run of a handler writes with console.log, makeApiRequest included
HandlerLogs(handler, outcome, st) ==
  LET ok == outcome = "ok"
      sent == outcome # "nokey"
  IN CASE handler = "tool:listTasks" ->
            IF ok THEN EmptyLog(st) \o <<"DEBUG listTasks response: ">>
            ELSE IF sent THEN <<"API error when getting tasks">> ELSE <<>>
       [] handler \in ShippedResourceHandlers ->
            IF ok THEN EmptyLog(st)
            ELSE IF sent THEN <<"API error when getting tasks">> ELSE <<>>
       [] handler = "tool:createTask" ->
            IF ok THEN <<"Created new task with ID ">> ELSE <<"Error in createTask: ">>
       [] handler = "tool:deleteTask" ->
            IF ok THEN <<"Deleted task ID ">> ELSE <<"Error in deleteTask: ">>
       [] OTHER -> <<>>

\* the return after `await handler(...)`
Returned(call, result) == Spread(call.id, call.type, result)

\* the catch around `await handler(...)`
Rejected(call, message) ==
  ErrorResponse(call.id, Template(call.prefix, JsStr(message)))

(***************************************************************************)
(* The 'line' listener.                                                    *)
(***************************************************************************)
\* the catch of the listener: what it writes, and whether the exception
\* leaves the listener (an unhandled rejection ends the process)
\* a catch that lets the exception leave the listener
LineRethrow(t, message) ==
  [crash |-> TRUE,
   resp |-> ErrorResponse(Template("error_", DateNow(t)),
                          Template("Failed to process request: ", JsStr(message)))]

LineCatch(t, message) ==
  [crash |-> FALSE,
   resp |-> ErrorResponse(Template("error_", DateNow(t)),
                          Template("Failed to process request: ", JsStr(message)))]

\* a request/reply-then-wait loop: no line is read while a request is open
WaitsForReply(rs) == \E k \in 1..Len(rs) : rs[k].st \in {"pending", "queued"}

\* readline emits 'line' without waiting for the promise the async listener
\* returned for an earlier line
AwaitsEarlierLines(rs) == FALSE

\* the listener reads the clock in its catch, the dispatcher when it needs an
\* id of its own
CallsDateNow(line) ==
  /\ Trim(line) # ""
  /\ \/ ~JsonParse(line).ok
     \/ ~InvalidFormat(line.value) /\ ~Truthy(line.value.id)

\* what Date.now() may return when the clock last read t: the same
\* millisecond or a later one
Clock(line, t) == IF CallsDateNow(line) THEN {t, t + 1} ELSE {t}

(***************************************************************************)
(* State.                                                                  *)
(***************************************************************************)
VARIABLES
  server,      \* the registry maps of the server object
  stdin,       \* the lines not yet emitted by readline
  now,         \* the value Date.now() last returned
  reqs,        \* one record per line emitted: the line and how far it got
  microtasks,  \* the microtask queue: continuations of awaits, oldest first
  draining,    \* the event loop is running microtasks
  stdout,      \* the lines written to the output stream
  calls,       \* the handler calls made, in order
  alive,       \* the process has not been ended by an unhandled rejection
  settled,     \* history: the requests whose handler completed, in that order
  readWith,    \* history: per request, PendingNow and OpenNow when it was read
  registered,  \* history: the registrations made on the server, in order
  store,       \* the API key configured or not, and the task store behind it
  apiCalls,    \* history: the requests sent to the task store, in order
  http,        \* the exchange of the HTTP wrapper that spawned this process
  sse          \* the SSE server: its connections and its activeTransports Map

vars ==
  <<server, stdin, now, reqs, microtasks, draining, stdout, calls, alive, settled,
    readWith, registered, store, apiCalls, http, sse>>

NoResponse == ErrorResponse(Undefined, Undefined)

Banner == "Task Manager MCP Server started. Ready to process messages."

LogLine(text) == [kind |-> "text", text |-> text, req |-> 0, resp |-> NoResponse]

\* an exchange of the HTTP wrapper: the request, the status and body set on
\* the response, how often res.end was called, and the exit code of the
\* child once it has closed
Exchange(st, method, url, body, status, out, ends, code) ==
  [st |-> st, method |-> method, url |-> url, body |-> body, status |-> status,
   out |-> out, ends |-> ends, code |-> code]

NoOutput == [error |-> "", details |-> "", output |-> <<>>, json |-> NoResponse]

\* the SSE server: the connections accepted, each with the connectionId its
\* handler computed and whether the client is still connected, the
\* activeTransports Map keyed by connectionId, and the outcome of the last
\* POST to /messages
Sse(connections, activeTransports, posted) ==
  [connections |-> connections, activeTransports |-> activeTransports, posted |-> posted]

NoPost == [key |-> "", status |-> 0, transport |-> 0]

\* no connection has been made
NoSse == Sse(<<>>, <<>>, NoPost)

\* no request has reached the wrapper: the process was started from a shell
NoExchange == Exchange("none", "", "", TextLine("empty"), 0, NoOutput, 0, "running")

\* console.log(JSON.stringify(response)): properties that are undefined are
\* left out of the line
ResponseLine(i, resp) == [kind |-> "response", text |-> "", req |-> i, resp |-> resp]

LogLines(log) == [k \in 1..Len(log) |-> LogLine(log[k])]

Req(line, t, st, call, resp) ==
  [line |-> line, at |-> t, st |-> st, call |-> call, resp |-> resp, outcome |-> ""]

\* the earlier requests whose handler is still pending, and those not yet
\* answered (recorded when a line is read, for the properties below)
PendingNow(rs) == {k \in 1..Len(rs) : rs[k].st = "pending"}
OpenNow(rs) == {k \in 1..Len(rs) : rs[k].st \in {"pending", "queued"}}

Continuation(i, hops) == [req |-> i, hops |-> hops]

\* the environment of the server: whether API_KEY is set, the ids of the
\* tasks the store holds, and the ways in which a request to it may fail
Store(apiKey, tasks, failures) ==
  [apiKey |-> apiKey, tasks |-> tasks, failures |-> failures]

\* a store that holds task 42, reached with an API key over a connection
\* that may refuse a request
ReachableStore == Store(TRUE, <<"42">>, {"rejected"})

ShippedServer ==
  [resources |-> ShippedResources, tools |-> ShippedTools, prompts |-> ShippedPrompts,
   toolInfo |-> ShippedToolInfo, promptInfo |-> ShippedPromptInfo]

EmbeddedServer ==
  [ShippedServer EXCEPT
     !.tools = RegisterTool(ShippedTools, EmbeddedTool, <<>>, EmbeddedHandler),
     !.toolInfo = RegisterInfo(ShippedToolInfo, EmbeddedTool, "", "")]

\* a resource with a wider tasks:// template registered before the shipped ones
GenericFirstServer ==
  [ShippedServer EXCEPT
     !.resources =
       RegisterShippedResources(
         RegisterResource(<<>>, "any", ResourceTemplate(P_tasksAny, ""), "resource:any"))]

\* two resources of another scheme registered after the shipped ones, the
\* narrower template first
OtherSchemeServer ==
  [ShippedServer EXCEPT
     !.resources =
       RegisterResource(
         RegisterResource(ShippedResources, "byId",
           ResourceTemplate(P_otherX, "by id"), "resource:byId"),
         "byAny", ResourceTemplate(P_otherAny, ""), "resource:byAny")]

\* a third tasks:// resource registered after the shipped ones
CategoryServer ==
  [ShippedServer EXCEPT
     !.resources =
       RegisterResource(ShippedResources, "category",
         ResourceTemplate(P_tasksCategory, "the tasks of a category"), "resource:category")]

(***************************************************************************)
(* Registration: server.resource, server.tool and server.prompt.           *)
(***************************************************************************)
\* the server object before any registration
BareServer ==
  [resources |-> <<>>, tools |-> <<>>, prompts |-> <<>>, toolInfo |-> <<>>,
   promptInfo |-> <<>>]

NoInfo(name) == [name |-> name, description |-> "", usage |-> ""]

Registration(kind, name, entry, info) ==
  [kind |-> kind, name |-> name, entry |-> entry, info |-> info]

\* (variant) registration methods that set the handler maps only
RegisterEntryOnly(srv, reg) ==
  CASE reg.kind = "resources" ->
         [srv EXCEPT !.resources = MapSet(@, reg.entry)]
    [] reg.kind = "tools" ->
         [srv EXCEPT !.tools = MapSet(@, reg.entry)]
    [] reg.kind = "prompts" ->
         [srv EXCEPT !.prompts = MapSet(@, reg.entry)]

\* this.resources.set(name, ...) / this.tools.set(name, ...) and
\* this.toolInfo.set(name, info) / this.prompts.set(name, ...) and
\* this.promptInfo.set(name, info)
Register(srv, reg) ==
  CASE reg.kind = "resources" ->
         [srv EXCEPT !.resources = MapSet(@, reg.entry)]
    [] reg.kind = "tools" ->
         [srv EXCEPT !.tools = MapSet(@, reg.entry), !.toolInfo = MapSet(@, reg.info)]
    [] reg.kind = "prompts" ->
         [srv EXCEPT !.prompts = MapSet(@, reg.entry), !.promptInfo = MapSet(@, reg.info)]

\* one registration per entry of the maps of a server
RegisteredBy(srv) ==
  [n \in 1..Len(srv.resources) |->
     Registration("resources", srv.resources[n].name, srv.resources[n],
                  NoInfo(srv.resources[n].name))]
  \o [n \in 1..Len(srv.tools) |->
        Registration("tools", srv.tools[n].name, srv.tools[n],
                     MapGet(srv.toolInfo, srv.tools[n].name))]
  \o [n \in 1..Len(srv.prompts) |->
        Registration("prompts", srv.prompts[n].name, srv.prompts[n],
                     MapGet(srv.promptInfo, srv.prompts[n].name))]

MaxRegistrations == 3

LoadedNames == {"x", "y"}

\* two registrations a module may make under each kind and name: they
\* differ in template or parameters, in handler and in metadata (the second
\* one passes no info argument)
Registrations ==
  UNION {
    {Registration("resources", name,
       [name |-> name, template |-> ResourceTemplate(P_tasksList, "first"),
        handler |-> "resource:first"], NoInfo(name)),
     Registration("resources", name,
       [name |-> name, template |-> ResourceTemplate(P_tasksTask, ""),
        handler |-> "resource:second"], NoInfo(name)),
     Registration("tools", name,
       [name |-> name, parameters |-> <<>>, handler |-> "tool:first"],
       [name |-> name, description |-> "first", usage |-> "examples:1"]),
     Registration("tools", name,
       [name |-> name, parameters |-> <<Param("p", "string", TRUE)>>,
        handler |-> "tool:second"], NoInfo(name)),
     Registration("prompts", name,
       [name |-> name, parameters |-> <<>>, handler |-> "prompt:first"],
       [name |-> name, description |-> "first", usage |-> "when:1"]),
     Registration("prompts", name,
       [name |-> name, parameters |-> <<Param("p", "string", TRUE)>>,
        handler |-> "prompt:second"], NoInfo(name))}
    : name \in LoadedNames}

(***************************************************************************)
(* The lines a caller may send.                                            *)
(***************************************************************************)
NoParameters == Undefined
SomeParameters == JsFields(<<"status", "done">>)

U_list == P_tasksList
U_task42 == C_tasks \o C_task \o <<"4", "2">>
U_none == C_tasks \o <<"n", "o", "n", "e">>
U_other == <<"o", "t", "h", "e", "r", ":", "/", "/", "x">>
U_invalid == <<"l", "i", "s", "t">>
U_extra == U_task42 \o <<"/", "e", "x", "t", "r", "a">>
U_taskSlash == C_tasks \o C_task
U_taskBare == C_tasks \o <<"t", "a", "s", "k">>
U_otherX7 == C_other \o <<"x", "/", "7">>
U_otherHostX7 == C_other \o <<"h", "/", "/", "x", "/", "7">>
U_otherHostX == C_other \o <<"h", "/", "/", "x">>
U_categoryDev == C_tasks \o <<"c", "a", "t", "e", "g", "o", "r", "y", "/", "d", "e", "v">>

\* absent, the falsy scalars, and two ordinary ids
Ids == {Undefined, JsNum("0"), JsBool("false"), JsStr(""), JsStr("a"), JsStr("b")}

Uris == {Undefined, JsNum("7"), JsChars(U_list), JsChars(U_task42), JsChars(U_none),
         JsChars(U_other), JsChars(U_invalid)}

\* the URIs asked of the registries with more resources
MoreUris ==
  Uris \cup {JsChars(U_extra), JsChars(U_taskSlash), JsChars(U_taskBare),
              JsChars(U_otherX7), JsChars(U_otherHostX7), JsChars(U_otherHostX),
              JsChars(U_categoryDev)}

ToolNames == {Undefined, JsStr("listTasks"), JsStr("createTask"), JsStr("doesNotExist"),
              JsStr("listtasks"), JsStr(EmbeddedTool)}

PromptNames == {Undefined, JsStr("listAllTasks"), JsStr("noSuchPrompt"),
                JsStr("listTasks")}

Discover(id) == Request(JsStr("discover"), id, Undefined, Undefined, Undefined, Undefined)
Resource(id, uri) == Request(JsStr("resource"), id, uri, Undefined, Undefined, Undefined)
Invoke(id, tool, parameters) ==
  Request(JsStr("invoke"), id, Undefined, tool, Undefined, parameters)
Prompt(id, prompt, parameters) ==
  Request(JsStr("prompt"), id, Undefined, Undefined, prompt, parameters)
Untyped(id, type) == Request(type, id, Undefined, JsStr("listTasks"), Undefined, Undefined)

AllRequests ==
  {Discover(id) : id \in Ids}
  \cup {Resource(id, uri) : id \in Ids, uri \in Uris}
  \cup {Invoke(id, tool, ps) : id \in Ids, tool \in ToolNames,
                               ps \in {NoParameters, JsNull, SomeParameters}}
  \cup {Prompt(id, name, ps) : id \in Ids, name \in PromptNames,
                               ps \in {NoParameters, JsNull}}
  \cup {Untyped(id, type) : id \in Ids,
                            type \in {Undefined, JsStr(""), JsStr("bogus"), JsNum("1")}}

\* JSON texts that are not objects
NonObjects ==
  {Primitive(JsNull), Primitive(JsNum("42")), Primitive(JsNum("0")),
   Primitive(JsStr("discover")), Primitive(JsBool("true")), Primitive(<<"array", "[]">>)}

NotJson == TextLine("garbage")

AllLines ==
  {TextLine("empty"), TextLine("blank"), NotJson}
  \cup {JsonLine(v) : v \in NonObjects}
  \cup {JsonLine(r) : r \in AllRequests}

\* the lines that are fed in sequences
CoreLines ==
  {NotJson, JsonLine(Primitive(JsNum("42"))),
   JsonLine(Discover(JsStr("a"))),
   JsonLine(Untyped(JsStr("b"), JsStr("bogus"))),
   JsonLine(Invoke(JsStr("a"), JsStr("createTask"), SomeParameters)),
   JsonLine(Invoke(JsStr("b"), JsStr("listTasks"), NoParameters)),
   JsonLine(Invoke(JsNum("0"), JsStr("listTasks"), NoParameters)),
   JsonLine(Invoke(JsStr("a"), JsStr("doesNotExist"), NoParameters)),
   JsonLine(Invoke(JsStr("b"), JsStr(EmbeddedTool), NoParameters)),
   JsonLine(Prompt(JsStr("b"), JsStr("listAllTasks"), NoParameters))}

SeqsUpTo(S, n) == UNION {[1..k -> S] : k \in 0..n}

Inputs == SeqsUpTo(CoreLines, MaxLines) \cup {<<l>> : l \in AllLines}

(***************************************************************************)
(* The event loop.                                                         *)
(***************************************************************************)
Init ==
  /\ server \in {ShippedServer, EmbeddedServer}
  /\ stdin \in Inputs
  /\ now = 0
  /\ reqs = <<>>
  /\ microtasks = <<>>
  /\ draining = FALSE
  /\ stdout = <<LogLine(Banner)>>
  /\ calls = <<>>
  /\ alive = TRUE
  /\ settled = <<>>
  /\ readWith = <<>>
  /\ registered = RegisteredBy(server)
  /\ store = ReachableStore
  /\ apiCalls = <<>>
  /\ http = NoExchange
  /\ sse = NoSse

\* readline has a line to emit and the event loop is between microtask runs
LineReady ==
  /\ alive
  /\ stdin # <<>>
  /\ ~draining
  /\ ~AwaitsEarlierLines(reqs)

\* readline emits the next line: the listener runs up to its first await
ReadLine ==
  /\ LineReady
  /\ \E t \in Clock(Head(stdin), now) :
       LET line == Head(stdin)
           i == Len(reqs) + 1
           parsed == JsonParse(line)
           caught == LineCatch(t, parsed.message)
           outcome == HandleRequest(parsed.value, t, server)
           call == outcome.call
       IN /\ stdin' = Tail(stdin)
          /\ now' = t
          /\ readWith' = Append(readWith, [pending |-> PendingNow(reqs), open |-> OpenNow(reqs)])
          /\ UNCHANGED <<server, draining, registered, store, http, sse>>
          /\ IF Trim(line) = ""
             THEN /\ reqs' = Append(reqs, Req(line, t, "skipped", NoCall, NoResponse))
                  /\ UNCHANGED <<microtasks, stdout, calls, alive, settled, apiCalls>>
             ELSE IF ~parsed.ok
             THEN /\ alive' = ~caught.crash
                  /\ reqs' = Append(reqs,
                       Req(line, t, IF caught.crash THEN "lost" ELSE "answered",
                           NoCall, caught.resp))
                  /\ stdout' = IF caught.crash THEN stdout
                               ELSE Append(stdout, ResponseLine(i, caught.resp))
                  /\ UNCHANGED <<microtasks, calls, settled, apiCalls>>
             ELSE IF outcome.kind = "respond"
             THEN /\ reqs' = Append(reqs, Req(line, t, "queued", NoCall, outcome.resp))
                  /\ microtasks' = Append(microtasks, Continuation(i, outcome.hops))
                  /\ stdout' = stdout \o LogLines(outcome.log)
                  /\ UNCHANGED <<calls, alive, settled, apiCalls>>
             ELSE /\ calls' = Append(calls, [req |-> i, call |-> call])
                  /\ stdout' = stdout \o LogLines(outcome.log)
                  /\ alive' = alive
                  /\ apiCalls' = IF store.apiKey /\ ApiRequestOf(call) # NoApiRequest
                                 THEN Append(apiCalls,
                                        [req |-> i, request |-> ApiRequestOf(call)])
                                 ELSE apiCalls
                  /\ \E mode \in CallModes(call) :
                       \/ /\ mode = "return"
                          /\ \E result \in Results(call, "ok", store) :
                               reqs' = Append(reqs,
                                 Req(line, t, "queued", call, Returned(call, result)))
                          /\ microtasks' = Append(microtasks, Continuation(i, 3))
                          /\ settled' = Append(settled, i)
                       \/ /\ mode = "throw"
                          /\ \E message \in HandlerErrors(call.handler) :
                               reqs' = Append(reqs,
                                 Req(line, t, "queued", call, Rejected(call, message)))
                          /\ microtasks' = Append(microtasks, Continuation(i, 2))
                          /\ settled' = Append(settled, i)
                       \/ /\ mode = "promise"
                          /\ reqs' = Append(reqs, Req(line, t, "pending", call, NoResponse))
                          /\ microtasks' = microtasks
                          /\ settled' = settled

\* the promise a handler returned settles; the awaiting handle* resumes later
Settle(i) ==
  /\ alive
  /\ reqs[i].st = "pending"
  /\ microtasks = <<>> \/ draining
  /\ \E outcome \in Outcomes(reqs[i].call, store) :
       /\ \/ \E result \in Results(reqs[i].call, outcome, store) :
               reqs' = [reqs EXCEPT ![i].st = "queued", ![i].outcome = outcome,
                                    ![i].resp = Returned(reqs[i].call, result)]
          \/ \E message \in HandlerErrors(reqs[i].call.handler) :
               reqs' = [reqs EXCEPT ![i].st = "queued", ![i].outcome = outcome,
                                    ![i].resp = Rejected(reqs[i].call, message)]
       /\ stdout' = stdout \o LogLines(HandlerLogs(reqs[i].call.handler, outcome, store))
  /\ microtasks' = Append(microtasks, Continuation(i, 3))
  /\ settled' = Append(settled, i)
  /\ UNCHANGED <<server, stdin, now, draining, calls, alive, readWith, registered,
                 store, apiCalls, http, sse>>

\* the oldest continuation runs: it resolves the promise awaited one level up,
\* or, in the listener, writes the response
RunMicrotask ==
  /\ alive
  /\ microtasks # <<>>
  /\ LET c == Head(microtasks)
     IN IF c.hops > 1
        THEN /\ microtasks' = Append(Tail(microtasks), Continuation(c.req, c.hops - 1))
             /\ UNCHANGED <<reqs, stdout>>
        ELSE /\ microtasks' = Tail(microtasks)
             /\ reqs' = [reqs EXCEPT ![c.req].st = "answered"]
             /\ stdout' = Append(stdout, ResponseLine(c.req, reqs[c.req].resp))
  /\ draining' = (microtasks' # <<>>)
  /\ UNCHANGED <<server, stdin, now, calls, alive, settled, readWith, registered,
                 store, apiCalls, http, sse>>

Next ==
  \/ ReadLine
  \/ \E i \in 1..Len(reqs) : Settle(i)
  \/ RunMicrotask

Spec == Init /\ [][Next]_vars

\* resource resolution: one or two resource requests sent to a server with
\* the shipped resources or with more
ResolveInputs ==
  {<<JsonLine(Resource(JsStr("a"), uri))>> : uri \in MoreUris}
  \cup {<<JsonLine(Resource(JsStr("a"), JsChars(U_task42))),
          JsonLine(Resource(JsStr("b"), uri))>> :
         uri \in {JsChars(U_list), JsChars(U_otherHostX7)}}

ResolveInit ==
  /\ server \in {ShippedServer, GenericFirstServer, OtherSchemeServer, CategoryServer}
  /\ stdin \in ResolveInputs
  /\ now = 0
  /\ reqs = <<>>
  /\ microtasks = <<>>
  /\ draining = FALSE
  /\ stdout = <<LogLine(Banner)>>
  /\ calls = <<>>
  /\ alive = TRUE
  /\ settled = <<>>
  /\ readWith = <<>>
  /\ registered = RegisteredBy(server)
  /\ store = ReachableStore
  /\ apiCalls = <<>>
  /\ http = NoExchange
  /\ sse = NoSse

ResolveSpec == ResolveInit /\ [][Next]_vars

\* what a step of ReadLine does to stdin
Deliver == LineReady /\ stdin' = Tail(stdin)

\* the event loop runs every microtask and readline emits every line that is
\* ready; nothing obliges a handler's promise to settle
FairSpec == Spec /\ WF_stdin(Deliver) /\ WF_vars(RunMicrotask)

\* the module is loaded: its last statement has written the banner
Loaded == stdout # <<>>

\* (variant) registrations made at any time
MayRegisterAnytime == TRUE

\* server.resource, server.tool and server.prompt are called by the top-level
\* statements of the module only, which all run before the banner is written
MayRegister == ~Loaded

\* a top-level statement of the module registers a resource, tool or prompt
RegisterNext ==
  /\ MayRegister
  /\ Len(registered) < MaxRegistrations
  /\ \E reg \in Registrations :
       /\ server' = Register(server, reg)
       /\ registered' = Append(registered, reg)
  /\ UNCHANGED <<stdin, now, reqs, microtasks, draining, stdout, calls, alive, settled,
                 readWith, store, apiCalls, http, sse>>

\* the last statement of the module: console.log of the banner
Start ==
  /\ ~Loaded
  /\ stdout' = <<LogLine(Banner)>>
  /\ UNCHANGED <<server, stdin, now, reqs, microtasks, draining, calls, alive, settled,
                 readWith, registered, store, apiCalls, http, sse>>

\* the lines sent to a server that made its own registrations
LoadInputs ==
  {<<JsonLine(Discover(JsStr("a")))>>,
   <<JsonLine(Invoke(JsStr("a"), JsStr("x"), NoParameters))>>,
   <<JsonLine(Prompt(JsStr("a"), JsStr("y"), NoParameters))>>,
   <<JsonLine(Resource(JsStr("a"), JsChars(U_list)))>>,
   <<JsonLine(Discover(JsStr("a"))), JsonLine(Invoke(JsStr("b"), JsStr("x"), NoParameters))>>}

LoadInit ==
  /\ server = BareServer
  /\ stdin \in LoadInputs
  /\ now = 0
  /\ reqs = <<>>
  /\ microtasks = <<>>
  /\ draining = FALSE
  /\ stdout = <<>>
  /\ calls = <<>>
  /\ alive = TRUE
  /\ settled = <<>>
  /\ readWith = <<>>
  /\ registered = <<>>
  /\ store = ReachableStore
  /\ apiCalls = <<>>
  /\ http = NoExchange
  /\ sse = NoSse

\* readline emits no line before the module is loaded
LoadNext ==
  \/ RegisterNext
  \/ Start
  \/ Loaded /\ ReadLine
  \/ \E i \in 1..Len(reqs) : Settle(i)
  \/ RunMicrotask

\* the module loads, making up to MaxRegistrations registrations, and then
\* serves the lines it reads
LoadSpec == LoadInit /\ [][LoadNext]_vars

\* the stores a server may run against
Stores ==
  {Store(apiKey, tasks, ApiFailures) :
     apiKey \in BOOLEAN, tasks \in {<<>>, <<"42">>, <<"7", "42">>}}

U_task(n) == C_tasks \o C_task \o n

\* invocations of the shipped tools and requests for the shipped resources
StoreRequests ==
  {Invoke(JsStr("a"), JsStr("listTasks"), ps) :
     ps \in {NoParameters, SomeParameters}}
  \cup {Invoke(JsStr("a"), JsStr("createTask"), JsFields(ps)) :
          ps \in {<<"task", "T", "category", "C">>,
                  <<"task", "T", "category", "C", "priority", "high">>,
                  <<"task", "T">>, <<"task", "T", "category", "">>,
                  <<"category", "C">>, <<>>}}
  \cup {Invoke(JsStr("a"), JsStr("updateTask"), JsFields(ps)) :
          ps \in {<<"taskId", "42", "status", "done">>, <<"taskId", "42">>,
                  <<"taskId", "42", "task", "", "category", "">>,
                  <<"taskId", "9", "task", "T">>}}
  \cup {Invoke(JsStr("a"), JsStr("deleteTask"), JsFields(ps)) :
          ps \in {<<"taskId", "42">>, <<"taskId", "9">>}}
  \cup {Resource(JsStr("a"), JsChars(uri)) :
          uri \in {U_list, U_task(<<"4", "2">>), U_task(<<"7">>), U_task(<<"9">>),
                   U_task(<<"0", "4", "2">>), U_taskSlash}}

StoreInputs ==
  {<<JsonLine(r)>> : r \in StoreRequests}
  \cup {<<JsonLine(Resource(JsStr("a"), JsChars(U_task42))),
          JsonLine(Invoke(JsStr("b"), JsStr("deleteTask"), JsFields(<<"taskId", "42">>)))>>}

StoreInit ==
  /\ server = ShippedServer
  /\ stdin \in StoreInputs
  /\ now = 0
  /\ reqs = <<>>
  /\ microtasks = <<>>
  /\ draining = FALSE
  /\ stdout = <<LogLine(Banner)>>
  /\ calls = <<>>
  /\ alive = TRUE
  /\ settled = <<>>
  /\ readWith = <<>>
  /\ registered = RegisteredBy(server)
  /\ store \in Stores
  /\ apiCalls = <<>>
  /\ http = NoExchange
  /\ sse = NoSse

\* the shipped server run against each store, with or without API key
StoreSpec == StoreInit /\ [][Next]_vars

(***************************************************************************)
(* Properties.                                                             *)
(***************************************************************************)
Decoded(i) == Trim(reqs[i].line) # "" /\ JsonParse(reqs[i].line).ok

Undecodable(i) == Trim(reqs[i].line) # "" /\ ~JsonParse(reqs[i].line).ok

Sent(i) == reqs[i].line.value

\* the positions in stdout of the responses written for request i
ResponsesTo(i) ==
  {k \in 1..Len(stdout) : stdout[k].kind = "response" /\ stdout[k].req = i}

\* the positions in calls of the handler calls made for request i
CallsFor(i) == {k \in 1..Len(calls) : calls[k].req = i}

KnownTypes == {JsStr("discover"), JsStr("resource"), JsStr("invoke"), JsStr("prompt")}

IsRequestObject(i) == Decoded(i) /\ Sent(i).prim = IsObject

IsTyped(i, type) == IsRequestObject(i) /\ Sent(i).type = JsStr(type)

Registered(m, v) == \E j \in 1..Len(m) : JsStr(m[j].name) = v

Contains(text, piece) == \E k \in 2..Len(text) : text[k] = piece

\* C2: every response written for a line that decodes carries the id of the
\* request on that line, whatever JSON scalar that id is (0, false and the
\* empty string included) and whatever the outcome.
C2_ResponseEchoesRequestId ==
  \A k \in 1..Len(stdout) :
    (/\ stdout[k].kind = "response"
     /\ Decoded(stdout[k].req)
     /\ Sent(stdout[k].req).id # Undefined)
    => stdout[k].resp.id = Sent(stdout[k].req).id

\* C6: an invoke naming a tool that is not registered is answered with the
\* error 'Tool not found: <name>' under the request's id, a prompt request
\* naming an unregistered prompt with 'Prompt not found: <name>', and no
\* handler is called for either.
C6_UnknownNamesRejected ==
  \A i \in 1..Len(reqs) :
    /\ (/\ IsTyped(i, "invoke")
        /\ IsString(Sent(i).tool)
        /\ ~Registered(server.tools, Sent(i).tool)
        /\ Sent(i).id # Undefined)
       => /\ CallsFor(i) = {}
          /\ \A k \in ResponsesTo(i) :
               stdout[k].resp =
                 ErrorResponse(Sent(i).id, Template("Tool not found: ", Sent(i).tool))
    /\ (/\ IsTyped(i, "prompt")
        /\ IsString(Sent(i).prompt)
        /\ ~Registered(server.prompts, Sent(i).prompt)
        /\ Sent(i).id # Undefined)
       => /\ CallsFor(i) = {}
          /\ \A k \in ResponsesTo(i) :
               stdout[k].resp =
                 ErrorResponse(Sent(i).id, Template("Prompt not found: ", Sent(i).prompt))

\* C7: a decoded payload that is not an object, or whose type is missing or
\* not one of the four known kinds, is answered with an error that carries
\* the request's id whenever it has one, and no handler is called for it.
C7_ClassificationErrorKeepsId ==
  \A i \in 1..Len(reqs) :
    (Decoded(i) /\ (Sent(i).prim # IsObject \/ Sent(i).type \notin KnownTypes))
    => /\ CallsFor(i) = {}
       /\ \A k \in ResponsesTo(i) :
            /\ stdout[k].resp.error # Undefined
            /\ stdout[k].resp.type = Undefined
            /\ Sent(i).id # Undefined => stdout[k].resp.id = Sent(i).id

\* C8: a non-empty line that does not decode is answered at once with exactly
\* one error response, whose id is 'error_' followed by the timestamp and
\* whose error text does not contain the message of the parse exception.
C8_ParseErrorNotEchoed ==
  \A i \in 1..Len(reqs) :
    Undecodable(i)
    => /\ Cardinality(ResponsesTo(i)) = 1
       /\ \A k \in ResponsesTo(i) :
            /\ stdout[k].resp.id = Template("error_", DateNow(reqs[i].at))
            /\ stdout[k].resp.error # Undefined
            /\ ~Contains(stdout[k].resp.error, ParseMessage)

ResultIds(i) ==
  {r.id : r \in {x \in HandlerResults(reqs[i].call.handler) : x.id # Undefined}}

HandlersOf(pattern) ==
  {server.resources[j].handler :
     j \in {n \in 1..Len(server.resources) :
              server.resources[n].template.pattern = pattern}}

TaskIdIs42 == <<Binding(<<"t", "a", "s", "k", "I", "d">>, JsChars(<<"4", "2">>))>>

\* C10: a resource request for tasks://task/42 calls the handler registered
\* under tasks://task/{taskId}, once, with {taskId: "42"}, and not the handler
\* of tasks://list; a request for tasks://list calls only the handler of
\* tasks://list, with no parameters.
C10_TaskUrisResolve ==
  \A i \in 1..Len(reqs) :
    IsTyped(i, "resource") =>
      /\ Sent(i).uri = JsChars(U_task42) =>
           \E k \in 1..Len(calls) :
             /\ CallsFor(i) = {k}
             /\ calls[k].call.cap = "resource"
             /\ calls[k].call.handler \in HandlersOf(P_tasksTask)
             /\ calls[k].call.handler \notin HandlersOf(P_tasksList)
             /\ calls[k].call.bindings = TaskIdIs42
      /\ Sent(i).uri = JsChars(U_list) =>
           \E k \in 1..Len(calls) :
             /\ CallsFor(i) = {k}
             /\ calls[k].call.cap = "resource"
             /\ calls[k].call.handler \in HandlersOf(P_tasksList)
             /\ calls[k].call.handler \notin HandlersOf(P_tasksTask)
             /\ calls[k].call.bindings = <<>>

\* the request for tasks://task/42 has been answered by the task handler
C10_Witness ==
  \E i \in 1..Len(reqs) :
    /\ IsTyped(i, "resource")
    /\ Sent(i).uri = JsChars(U_task42)
    /\ reqs[i].st = "answered"
    /\ reqs[i].call.name = "task"
    /\ reqs[i].call.bindings = TaskIdIs42
    /\ \E k \in ResponsesTo(i) : stdout[k].resp.type = JsStr("resource_response")

\* the positions in stdout of the response lines
ResponseLines == {k \in 1..Len(stdout) : stdout[k].kind = "response"}

\* a request object of a known kind that has an id field and, unless it is a
\* discover, names one of the shipped resources, tools or prompts
WellFormed(i) ==
  /\ IsRequestObject(i)
  /\ Sent(i).id # Undefined
  /\ \/ IsTyped(i, "discover")
     \/ reqs[i].call # NoCall /\ reqs[i].call.handler # EmbeddedHandler

\* every line has been read while all earlier requests were still open, the
\* requests are well formed, their ids differ, and all have been answered
BatchAnswered ==
  /\ stdin = <<>>
  /\ Len(reqs) > 1
  /\ \A i \in 1..Len(reqs) :
       /\ WellFormed(i)
       /\ readWith[i].open = 1..(i - 1)
       /\ reqs[i].st = "answered"
  /\ \A i, j \in 1..Len(reqs) : i # j => Sent(i).id # Sent(j).id

\* C1: when a batch of N well-formed requests with pairwise distinct ids has
\* been read before any of them completed and every handler has completed,
\* exactly N response lines have been written, every response carries the id
\* of a submitted request, and every submitted id is carried by exactly one
\* response.
C1_BatchResponsesCorrelate ==
  BatchAnswered =>
    /\ Cardinality(ResponseLines) = Len(reqs)
    /\ \A k \in ResponseLines :
         \E i \in 1..Len(reqs) : stdout[k].resp.id = Sent(i).id
    /\ \A i \in 1..Len(reqs) :
         Cardinality({k \in ResponseLines : stdout[k].resp.id = Sent(i).id}) = 1

\* the position in `settled` at which the handler of request i completed
SettledAt(i) == CHOOSE n \in 1..Len(settled) : settled[n] = i

HasSettled(i) == \E n \in 1..Len(settled) : settled[n] = i

\* C4: when an invoke of createTask (A) and a later invoke of listTasks (B)
\* were both read before either handler completed, and B's handler completed
\* before A's, B's response is written before A's and each of the two
\* responses carries the id of its own request.
C4_FasterHandlerAnswersFirst ==
  \A a, b \in 1..Len(reqs) :
    (/\ a < b
     /\ IsTyped(a, "invoke") /\ Sent(a).tool = JsStr("createTask")
     /\ IsTyped(b, "invoke") /\ Sent(b).tool = JsStr("listTasks")
     /\ Sent(a).id # Undefined /\ Sent(b).id # Undefined
     /\ a \in readWith[b].pending
     /\ HasSettled(a) /\ HasSettled(b) /\ SettledAt(b) < SettledAt(a)
     /\ reqs[a].st = "answered" /\ reqs[b].st = "answered")
    => /\ \A ka \in ResponsesTo(a), kb \in ResponsesTo(b) : kb < ka
       /\ \A ka \in ResponsesTo(a) : stdout[ka].resp.id = Sent(a).id
       /\ \A kb \in ResponsesTo(b) : stdout[kb].resp.id = Sent(b).id

\* the p-th line of the input, read or not
HasLine(p) == p <= Len(reqs) + Len(stdin)

LineAt(p) == IF p <= Len(reqs) THEN reqs[p].line ELSE stdin[p - Len(reqs)]

DiscoverLine(p) ==
  /\ HasLine(p)
  /\ Trim(LineAt(p)) # ""
  /\ JsonParse(LineAt(p)).ok
  /\ LineAt(p).value.prim = IsObject
  /\ LineAt(p).value.type = JsStr("discover")

GarbageLine(p) ==
  HasLine(p) /\ Trim(LineAt(p)) # "" /\ ~JsonParse(LineAt(p)).ok

Names(m) == [j \in 1..Len(m) |-> m[j].name]

\* the p-th line has been answered with one discover_response that lists the
\* registered tools, resources and prompts
DiscoveryAnswered(p) ==
  /\ p <= Len(reqs)
  /\ \E k \in 1..Len(stdout) :
       /\ ResponsesTo(p) = {k}
       /\ stdout[k].resp.type = JsStr("discover_response")
       /\ stdout[k].resp.error = Undefined
       /\ stdout[k].resp.body.kind = "discovery"
       /\ stdout[k].resp.body.server = ServerName
       /\ Names(stdout[k].resp.body.tools) = Names(server.tools)
       /\ Names(stdout[k].resp.body.resources) = Names(server.resources)
       /\ Names(stdout[k].resp.body.prompts) = Names(server.prompts)

\* the p-th line has been answered with one error response
ErrorAnswered(p) ==
  /\ p <= Len(reqs)
  /\ \E k \in 1..Len(stdout) :
       /\ ResponsesTo(p) = {k}
       /\ stdout[k].resp.type = Undefined
       /\ stdout[k].resp.error # Undefined

\* C3: no line stops the server: it stays alive whatever it reads, every
\* discover request, whatever lines came before it (text that is not JSON,
\* JSON that is not an object, an unknown type, an unknown tool, a handler
\* that throws), is eventually answered with a discover_response listing what
\* is registered, and every line that is not JSON with an error response.
C3_NoLineStopsTheServer ==
  /\ []alive
  /\ \A p \in 1..MaxLines :
       /\ DiscoverLine(p) ~> DiscoveryAnswered(p)
       /\ GarbageLine(p) ~> ErrorAnswered(p)

\* a line that is not JSON has been answered with an error and the discover
\* request after it with a discovery response
C3_Witness ==
  /\ Len(reqs) = 2
  /\ Undecodable(1) /\ ErrorAnswered(1)
  /\ IsTyped(2, "discover") /\ DiscoveryAnswered(2)

\* C5: a handler that never completes delays only its own response: every
\* line of the input is eventually read, pending handlers or not, and every
\* request whose response is due (it needed no handler, or its handler has
\* completed) is eventually answered.
C5_StalledHandlerBlocksNoOne ==
  /\ <>(stdin = <<>>)
  /\ \A p \in 1..MaxLines :
       (p <= Len(reqs) /\ reqs[p].st = "queued")
         ~> (p <= Len(reqs) /\ reqs[p].st = "answered")

\* the second request was read while the handler of the first was pending;
\* its own handler has completed and it has been answered while the first
\* handler is still pending
C5_Witness ==
  /\ Len(reqs) = 2
  /\ reqs[1].st = "pending"
  /\ 1 \in readWith[2].pending
  /\ reqs[2].call # NoCall
  /\ reqs[2].st = "answered"

(***************************************************************************)
(* Resource resolution.                                                    *)
(***************************************************************************)
Segments(text) == Split(text, <<"/">>)

IsPlaceholder(segment) == StartsWith(segment, <<"{">>) /\ EndsWith(segment, <<"}">>)

\* the URI and the template have the same scheme, the same number of
\* '/'-separated segments and the same text at every literal segment
SameShape(uri, pattern) ==
  LET u == Segments(uri)
      t == Segments(pattern)
  IN /\ Len(u) = Len(t)
     /\ \A n \in 1..Len(t) : IsPlaceholder(t[n]) \/ u[n] = t[n]

\* request i is a resource request whose uri is a string
AsksFor(i) == IsTyped(i, "resource") /\ IsString(Sent(i).uri)

UriOf(i) == Tail(Sent(i).uri)

\* the registry entries whose handler has been called for request i
ResolvedTo(i) ==
  {n \in 1..Len(server.resources) :
     \E k \in CallsFor(i) :
       /\ calls[k].call.cap = "resource"
       /\ calls[k].call.name = server.resources[n].name}

Matching(i) ==
  {n \in 1..Len(server.resources) :
     SameShape(UriOf(i), server.resources[n].template.pattern)}

\* the same, every placeholder standing for a segment that is not empty
Matches(uri, pattern) ==
  /\ SameShape(uri, pattern)
  /\ \A n \in 1..Len(Segments(pattern)) :
       IsPlaceholder(Segments(pattern)[n]) => Segments(uri)[n] # <<>>

MatchingNonEmpty(i) ==
  {n \in 1..Len(server.resources) :
     Matches(UriOf(i), server.resources[n].template.pattern)}

\* C11: a resource request for U is resolved to the registered template T
\* only if U and T have the same scheme, the same number of segments and the
\* same text at every literal segment, and it is resolved to some template
\* whenever one has; a URI with more or fewer segments than T is never
\* resolved to T.
C11_ResolvedIffSameShape ==
  \A i \in 1..Len(reqs) :
    AsksFor(i) =>
      /\ ResolvedTo(i) \subseteq Matching(i)
      /\ Matching(i) # {} => ResolvedTo(i) # {}

\* C12: no resource handler is called with a path parameter that is empty
\* or undefined: a URI whose placeholder position is empty or absent
\* (tasks://task/, tasks://task) is not resolved.
C12_PlaceholderBindsNonEmpty ==
  /\ \A k \in 1..Len(calls) :
       \A n \in 1..Len(calls[k].call.bindings) :
         /\ calls[k].call.bindings[n].value # Undefined
         /\ calls[k].call.bindings[n].value # JsChars(<<>>)
  /\ \A i \in 1..Len(reqs) :
       (AsksFor(i) /\ UriOf(i) \in {U_taskSlash, U_taskBare}) => CallsFor(i) = {}

\* C13: at most one resource handler is called for a resource request, and
\* no template registered before the one whose handler is called matches the
\* URI: of several matching templates the first registered one wins.
C13_FirstRegisteredWins ==
  \A i \in 1..Len(reqs) :
    AsksFor(i) =>
      /\ Cardinality(CallsFor(i)) <= 1
      /\ \A n \in ResolvedTo(i) : \A m \in MatchingNonEmpty(i) : n <= m

HasScheme(uri) == IndexOf(uri, <<":">>) > 1

\* C14: a resource request whose URI matches no registered template, whatever
\* its scheme, and for which no handler is called, is answered with the
\* request's id and the error 'No resource handler found for URI: <uri>'.
C14_NoTemplateNoHandler ==
  \A i \in 1..Len(reqs) :
    (AsksFor(i) /\ HasScheme(UriOf(i)) /\ Matching(i) = {} /\ CallsFor(i) = {}) =>
      /\ \A k \in ResponsesTo(i) :
           stdout[k].resp =
             ErrorResponse(Sent(i).id,
               <<"string", "No resource handler found for URI: ">> \o UriOf(i))

\* ---------------------------------------------------------------------
\* Discovery
\* ---------------------------------------------------------------------

\* the positions in stdout of the discover responses
Manifests ==
  {k \in ResponseLines : stdout[k].resp.type = JsStr("discover_response")}

\* how many entries of a manifest array carry the name
Occurrences(entries, name) ==
  Cardinality({j \in 1..Len(entries) : entries[j].name = name})

\* every name of the registry is listed once, and no other name is listed
ListsOnce(entries, registry) ==
  /\ \A n \in 1..Len(registry) : Occurrences(entries, registry[n].name) = 1
  /\ \A j \in 1..Len(entries) : MapHas(registry, entries[j].name)

\* C15: the registry never changes while the server runs, and any two
\* discover responses carry the same manifest (they differ in the echoed id
\* only); in each of them every registered tool, resource and prompt name
\* appears exactly once in the array of its kind.
C15_DiscoveryIdempotentAndComplete ==
  /\ \A k \in Manifests : \A l \in Manifests :
       stdout[k].resp.body = stdout[l].resp.body
  /\ \A k \in Manifests :
       /\ ListsOnce(stdout[k].resp.body.tools, server.tools)
       /\ ListsOnce(stdout[k].resp.body.resources, server.resources)
       /\ ListsOnce(stdout[k].resp.body.prompts, server.prompts)

\* two discover requests have both been answered
C15_Witness ==
  \E k \in Manifests : \E l \in Manifests :
    /\ stdout[k].req # stdout[l].req
    /\ IsTyped(stdout[k].req, "discover")
    /\ IsTyped(stdout[l].req, "discover")

\* the names in the order of the server.tool(...), server.resource(...) and
\* server.prompt(...) statements of the program
ToolsAsRegistered == <<"listTasks", "createTask", "updateTask", "deleteTask">>

ResourcesAsRegistered == <<"tasks", "task">>

PromptsAsRegistered ==
  <<"listAllTasks", "createTaskNaturalLanguage", "createNewTask", "taskProgressReport">>

\* the parameter names in the order of their declaration
DeclaredParameters(tool) ==
  CASE tool = "listTasks" -> <<"status", "priority">>
    [] tool = "createTask" -> <<"task", "category", "priority", "status">>
    [] tool = "updateTask" -> <<"taskId", "task", "category", "priority", "status">>
    [] tool = "deleteTask" -> <<"taskId">>
    [] OTHER -> <<>>

Keys(object) == [n \in 1..Len(object.members) |-> object.members[n].key]

\* the entries of the array that are among the shipped ones, in their order
RECURSIVE ShippedAmong(_, _)
ShippedAmong(names, shipped) ==
  IF names = <<>> THEN <<>>
  ELSE IF \E n \in 1..Len(shipped) : shipped[n] = Head(names)
       THEN <<Head(names)>> \o ShippedAmong(Tail(names), shipped)
       ELSE ShippedAmong(Tail(names), shipped)

\* C16: a discover response lists the tools, resources and prompts in the
\* order of their registration, not alphabetically: the shipped tools come
\* as listTasks, createTask, updateTask, deleteTask, a tool registered after
\* them comes after them, and each shipped tool carries the names of its
\* declared parameters in the order of their declaration.
C16_ManifestInRegistrationOrder ==
  \A k \in Manifests :
    LET body == stdout[k].resp.body IN
    /\ Names(body.tools) = Names(server.tools)
    /\ Names(body.resources) = Names(server.resources)
    /\ Names(body.prompts) = Names(server.prompts)
    /\ SubSeq(Names(body.tools), 1, 4) = ToolsAsRegistered
    /\ ShippedAmong(Names(body.resources), ResourcesAsRegistered) = ResourcesAsRegistered
    /\ Names(body.prompts) = PromptsAsRegistered
    /\ \A j \in 1..Len(body.tools) :
         j <= 4 => Keys(body.tools[j].parameters) = DeclaredParameters(body.tools[j].name)

\* a discover request has been answered by a server on which a further tool
\* was registered after the shipped ones, and the manifest starts with
\* listTasks and createTask (alphabetically createTask would come first)
C16_Witness ==
  \E k \in Manifests :
    LET names == Names(stdout[k].resp.body.tools) IN
    /\ IsTyped(stdout[k].req, "discover")
    /\ Len(names) = 5
    /\ names[1] = "listTasks"
    /\ names[2] = "createTask"
    /\ names[5] = EmbeddedTool

ParameterTypes == {"string", "number", "boolean", "array", "object", "enum"}

\* the parameters declared required: those without .optional()
RequiredParameters(tool) ==
  CASE tool = "createTask" -> {"task", "category"}
    [] tool = "updateTask" -> {"taskId"}
    [] tool = "deleteTask" -> {"taskId"}
    [] OTHER -> {}

\* C17: in a discover response every tool and prompt entry has a usage
\* field and a parameters list with one item {name, description, type,
\* required} per declared parameter, where type is one of string, number,
\* boolean, array, object, enum and required is true exactly for the
\* parameters declared required (for createTask: task and category).
C17_ParameterItems ==
  \A k \in Manifests :
    LET body == stdout[k].resp.body IN
    \A entries \in {body.tools, body.prompts} :
      \A j \in 1..Len(entries) :
        /\ entries[j].usage # Undefined
        /\ entries[j].parameters.json = "array"
        /\ \A n \in 1..Len(entries[j].parameters.members) :
             LET item == entries[j].parameters.members[n] IN
             /\ item.type \in ParameterTypes
             /\ item.required = (item.name \in RequiredParameters(entries[j].name))

\* ---------------------------------------------------------------------
\* The output stream
\* ---------------------------------------------------------------------

\* C18: every line on the output stream is the JSON encoding of one response
\* to a received request, and no decoded request has more than one line:
\* start-up, URI matching and the tool handlers write nothing else there.
C18_OnlyResponsesOnStdout ==
  /\ \A k \in 1..Len(stdout) :
       /\ stdout[k].kind = "response"
       /\ stdout[k].req \in 1..Len(reqs)
  /\ \A i \in 1..Len(reqs) :
       /\ Decoded(i) => Cardinality(ResponsesTo(i)) <= 1
       /\ (Decoded(i) /\ reqs[i].st = "answered") => Cardinality(ResponsesTo(i)) = 1

\* ---------------------------------------------------------------------
\* Handler errors and response shapes
\* ---------------------------------------------------------------------

\* the response at position k of stdout was built by the catch around the
\* call of the handler of request i: a handler was called and the response
\* has no type (a handler that returns always yields a response with a type)
FromCatch(i, k) ==
  /\ k \in ResponsesTo(i)
  /\ CallsFor(i) # {}
  /\ stdout[k].resp.type = Undefined

\* C19: when the handler called for a request throws, or its promise
\* rejects, with message M, the server stays alive and the response is an
\* error response with the id of the request whose error field is exactly M.
C19_HandlerErrorVerbatim ==
  /\ alive
  /\ \A i \in 1..Len(reqs) : \A k \in 1..Len(stdout) :
       FromCatch(i, k) =>
         /\ Sent(i).id # Undefined => stdout[k].resp.id = Sent(i).id
         /\ \E M \in HandlerErrors(reqs[i].call.handler) :
              stdout[k].resp.error = JsStr(M)

\* the request type suffixed '_response'
Mirrored(type) == JsStr(type[2] \o "_response")

\* a type that mirrors the request's, a payload, and no error
SuccessShape(k) ==
  /\ IsRequestObject(stdout[k].req)
  /\ IsString(Sent(stdout[k].req).type)
  /\ stdout[k].resp.type = Mirrored(Sent(stdout[k].req).type)
  /\ stdout[k].resp.body.kind \in {"discovery", "result"}
  /\ stdout[k].resp.error = Undefined

\* an error string and no type
ErrorShape(k) ==
  /\ IsString(stdout[k].resp.error)
  /\ stdout[k].resp.type = Undefined

\* C20: every response written either has a type equal to the request type
\* suffixed '_response' together with a payload and no error field, or has
\* an error string and no type field; none has both an error and a type, and
\* none has neither.
C20_ResponseShapes ==
  \A k \in ResponseLines :
    /\ SuccessShape(k) \/ ErrorShape(k)
    /\ ~(stdout[k].resp.error # Undefined /\ stdout[k].resp.type # Undefined)
    /\ ~(stdout[k].resp.error = Undefined /\ stdout[k].resp.type = Undefined)

\* ---------------------------------------------------------------------
\* Parameters
\* ---------------------------------------------------------------------

\* the calls of tool and prompt handlers
ParameterCalls == {k \in 1..Len(calls) : calls[k].call.cap \in {"tool", "prompt"}}

\* C21: a tool or prompt handler is always called with a parameters object:
\* never with null or undefined, and with the empty object when the request
\* has no parameters field or the field is null.
C21_HandlerGetsParametersObject ==
  \A k \in ParameterCalls :
    LET given == calls[k].call.parameters
        sent == Sent(calls[k].req).parameters
    IN /\ given \notin {Undefined, JsNull}
       /\ given[1] = "object"
       /\ sent \in {Undefined, JsNull} => given = EmptyObject

\* a prompt handler was called for a request whose parameters are null and
\* received the empty object
C21_Witness ==
  \E k \in ParameterCalls :
    /\ calls[k].call.cap = "prompt"
    /\ Sent(calls[k].req).parameters = JsNull
    /\ calls[k].call.parameters = EmptyObject

\* ---------------------------------------------------------------------
\* Generated ids
\* ---------------------------------------------------------------------

\* C26: a request with one of the four types and no id field is answered
\* once, and the response carries the id the server generated for it
\* ('request_' followed by the time the request was read).
C26_MissingIdIsGenerated ==
  \A i \in 1..Len(reqs) :
    (/\ IsRequestObject(i)
     /\ Sent(i).type \in KnownTypes
     /\ Sent(i).id = Undefined
     /\ reqs[i].st = "answered")
    => /\ Cardinality(ResponsesTo(i)) = 1
       /\ \A k \in ResponsesTo(i) :
            stdout[k].resp.id = Template("request_", DateNow(reqs[i].at))

\* the response at position k was built from what the handler of its request
\* returned
FromResult(k) ==
  /\ k \in ResponseLines
  /\ reqs[stdout[k].req].call # NoCall
  /\ stdout[k].resp.body.kind = "result"

\* C29: whatever the handler returns, an object with id, type or error
\* fields of its own included, the response built from it carries the id of
\* the request (here: of a request whose id is not replaced for being falsy)
\* and the request type suffixed '_response'.
C29_ResultKeepsIdAndType ==
  \A k \in 1..Len(stdout) :
    FromResult(k) =>
      LET i == stdout[k].req IN
      /\ Truthy(Sent(i).id) => stdout[k].resp.id = Sent(i).id
      /\ stdout[k].resp.type = Mirrored(Sent(i).type)

\* ---------------------------------------------------------------------
\* The steps of one request
\* ---------------------------------------------------------------------

\* request i was classified as a request for a capability of the kind and
\* resolved to a registered entry whose handler is the one called
ResolvedBefore(i, call) ==
  /\ IsRequestObject(i)
  /\ \/ /\ call.cap = "tool" /\ IsTyped(i, "invoke")
        /\ HasKey(server.tools, Sent(i).tool)
        /\ MapGet(server.tools, KeyOf(Sent(i).tool)).handler = call.handler
     \/ /\ call.cap = "prompt" /\ IsTyped(i, "prompt")
        /\ HasKey(server.prompts, Sent(i).prompt)
        /\ MapGet(server.prompts, KeyOf(Sent(i).prompt)).handler = call.handler
     \/ /\ call.cap = "resource" /\ IsTyped(i, "resource")
        /\ MapHas(server.resources, call.name)
        /\ MapGet(server.resources, call.name).handler = call.handler

\* the order within each request, in every state
StepsInOrder ==
  /\ \A k \in 1..Len(calls) : ResolvedBefore(calls[k].req, calls[k].call)
  /\ \A i \in 1..Len(reqs) :
       /\ Cardinality(CallsFor(i)) <= 1
       /\ Cardinality(ResponsesTo(i)) <= 1
       /\ (reqs[i].call # NoCall) = (CallsFor(i) # {})
       /\ HasSettled(i) => CallsFor(i) # {}
       /\ \A k \in ResponsesTo(i) :
            /\ reqs[i].st = "answered"
            /\ CallsFor(i) # {} => HasSettled(i)

\* nothing more happens for a request that has been answered
AnsweredIsFinal ==
  \A i \in 1..Len(reqs) :
    reqs[i].st = "answered" =>
      /\ i <= Len(reqs') /\ reqs'[i] = reqs[i]
      /\ {k \in 1..Len(calls') : calls'[k].req = i} = CallsFor(i)
      /\ {k \in 1..Len(stdout') : stdout'[k].kind = "response" /\ stdout'[k].req = i}
           = ResponsesTo(i)
      /\ \A n \in 1..Len(microtasks') : microtasks'[n].req # i

\* C28: for every request the steps come in the order classify, resolve,
\* invoke, respond: a handler is called only for a request that was
\* classified and resolved, at most one handler is called per request, the
\* response is written only after that handler has completed, and once the
\* response (an error response included) is written nothing more happens
\* for the request.
C28_StepsInOrder == [](StepsInOrder) /\ [][AnsweredIsFinal]_vars

\* a handler was called, completed, and the response was written after it;
\* another request was answered with an error without any handler call
C28_Witness ==
  /\ \E i \in 1..Len(reqs) :
       CallsFor(i) # {} /\ HasSettled(i) /\ ResponsesTo(i) # {}
  /\ \E i \in 1..Len(reqs) :
       /\ IsTyped(i, "invoke") /\ CallsFor(i) = {}
       /\ \E k \in ResponsesTo(i) : stdout[k].resp.error # Undefined

\* ---------------------------------------------------------------------
\* The registry
\* ---------------------------------------------------------------------

Kinds == {"resources", "tools", "prompts"}

\* the names registered so far, under any kind
NamesRegistered == {registered[n].name : n \in 1..Len(registered)}

\* the positions in the history of the registrations under a kind and name
RegistrationsOf(kind, name) ==
  {n \in 1..Len(registered) : registered[n].kind = kind /\ registered[n].name = name}

Latest(kind, name) ==
  registered[CHOOSE n \in RegistrationsOf(kind, name) :
               \A m \in RegistrationsOf(kind, name) : m <= n]

\* C22: after any sequence of registrations, the entry found under a kind
\* and name is the one of the most recent registration under that kind and
\* name, whatever was registered under the same name in the other two
\* kinds; a name never registered under a kind is not found under it.
C22_LastWriteWins ==
  \A kind \in Kinds : \A name \in NamesRegistered \cup LoadedNames :
    IF RegistrationsOf(kind, name) = {}
    THEN ~MapHas(server[kind], name)
    ELSE /\ MapHas(server[kind], name)
         /\ MapGet(server[kind], name) = Latest(kind, name).entry

\* a name was registered twice under one kind, with different entries, and
\* once under another kind in between
C22_Witness ==
  \E name \in LoadedNames :
    /\ Len(registered) = 3
    /\ registered[1].name = name /\ registered[2].name = name /\ registered[3].name = name
    /\ registered[1].kind = "tools" /\ registered[3].kind = "tools"
    /\ registered[2].kind = "prompts"
    /\ registered[1].entry # registered[3].entry
    /\ MapGet(server.tools, name) = registered[3].entry

\* C30: once the module is loaded and the server serves requests, no step
\* changes the registry: the three maps of handlers and the two maps of
\* metadata stay as they are, whatever request is handled and however it
\* ends.
C30_RegistryReadOnlyWhileServing ==
  [][Loaded => /\ server' = server
               /\ registered' = registered]_vars

\* a server that made registrations has answered a request through a handler
C30_Witness ==
  /\ Loaded
  /\ registered # <<>>
  /\ \E i \in 1..Len(reqs) :
       reqs[i].st = "answered" /\ CallsFor(i) # {} /\ HasSettled(i)

\* ---------------------------------------------------------------------
\* The shipped handlers and the task store
\* ---------------------------------------------------------------------

\* the handler called for request i has completed
Completed(i) == reqs[i].st \in {"queued", "answered"} /\ reqs[i].call # NoCall

\* the call to the task store made for request i failed
StoreFailed(i) == reqs[i].outcome \in ApiFailures \cup {"nokey"}

\* the requests sent to the task store for request i
ApiCallsFor(i) == {k \in 1..Len(apiCalls) : apiCalls[k].req = i}

\* C23: when the call to the task store made by listTasks, createTask,
\* updateTask or deleteTask fails (request rejected, HTTP error status, no
\* API key), the handler returns normally: the response is an
\* invoke_response without error field whose content is one text item that
\* ends with the message of the failure, and the server stays alive.
C23_StoreFailureIsContent ==
  /\ alive
  /\ \A i \in 1..Len(reqs) :
       (/\ Completed(i)
        /\ reqs[i].call.handler \in ShippedToolHandlers
        /\ StoreFailed(i))
       => /\ reqs[i].resp.type = JsStr("invoke_response")
          /\ reqs[i].resp.error = Undefined
          /\ reqs[i].resp.body.payload = "content"
          /\ Len(reqs[i].resp.body.items) = 1
          /\ LET item == reqs[i].resp.body.items[1]
             IN /\ item.type = "text"
                /\ item.text[Len(item.text)] = ApiMessage(reqs[i].outcome)
          /\ \A k \in ResponsesTo(i) : stdout[k].resp = reqs[i].resp

\* an updateTask whose request to the store came back with an error status
\* has been answered
C23_Witness ==
  \E i \in 1..Len(reqs) :
    /\ reqs[i].call.handler = "tool:updateTask"
    /\ reqs[i].outcome = "status"
    /\ ApiCallsFor(i) # {}
    /\ reqs[i].st = "answered"
    /\ ResponsesTo(i) # {}

\* request i invokes createTask without a task or without a category (absent
\* or empty)
IncompleteCreate(i) ==
  /\ IsTyped(i, "invoke")
  /\ Sent(i).tool = JsStr("createTask")
  /\ \/ ~Truthy(Field(ParametersOrEmpty(Sent(i).parameters), "task"))
     \/ ~Truthy(Field(ParametersOrEmpty(Sent(i).parameters), "category"))

ValidationMessages == {"Task description is required", "Category is required"}

\* C24: an invoke of createTask whose task or category is missing or empty
\* sends no request to the task store and is answered with an
\* invoke_response whose text reports the validation failure, such as
\* 'Error creating task: Category is required'.
C24_CreateTaskValidates ==
  \A i \in 1..Len(reqs) :
    IncompleteCreate(i) =>
      /\ ApiCallsFor(i) = {}
      /\ \A k \in ResponsesTo(i) :
           /\ stdout[k].resp.type = JsStr("invoke_response")
           /\ Len(stdout[k].resp.body.items) = 1
           /\ \E message \in ValidationMessages :
                stdout[k].resp.body.items[1].text = <<"Error creating task: ", message>>

\* request i asks for tasks://task/<n>, n a decimal number
AsksForTask(i) ==
  /\ IsTyped(i, "resource")
  /\ reqs[i].call.handler = "resource:task"
  /\ LET taskId == BindingValue(reqs[i].call.bindings, <<"t", "a", "s", "k", "I", "d">>)
     IN /\ IsString(taskId)
        /\ Len(taskId) > 1
        /\ \A n \in 2..Len(taskId) : IsDigit(taskId[n])

Wanted(i) ==
  Join(StripZeros(Tail(BindingValue(reqs[i].call.bindings, <<"t", "a", "s", "k", "I", "d">>))))

Holds(id) == \E n \in 1..Len(store.tasks) : store.tasks[n] = id

\* C27: a resource request for tasks://task/<n> is answered with a
\* resource_response that has exactly one contents entry, whether the task
\* exists, does not exist or the task store fails; when the store answers
\* and holds a task with id n, the metadata of the entry is that task, with
\* id n.
C27_OneEntryPerTask ==
  \A i \in 1..Len(reqs) :
    (AsksForTask(i) /\ Completed(i)) =>
      /\ reqs[i].resp.type = JsStr("resource_response")
      /\ reqs[i].resp.error = Undefined
      /\ reqs[i].resp.body.payload = "contents"
      /\ Len(reqs[i].resp.body.items) = 1
      /\ (reqs[i].outcome = "ok" /\ Holds(Wanted(i))) =>
           reqs[i].resp.body.items[1].metadata = [id |-> JsNum(Wanted(i)), error |-> Undefined]
      /\ \A k \in ResponsesTo(i) : stdout[k].resp = reqs[i].resp

\* tasks://task/42 has been answered from a store that holds the tasks 7 and
\* 42, with the entry of task 42
C27_Witness ==
  \E i \in 1..Len(reqs) :
    /\ AsksForTask(i) /\ Wanted(i) = "42"
    /\ store.tasks = <<"7", "42">>
    /\ reqs[i].outcome = "ok"
    /\ \E k \in ResponsesTo(i) :
         stdout[k].resp.body.items[1].metadata.id = JsNum("42")

\* ---------------------------------------------------------------------
\* The HTTP wrapper.  Each POST to /mcp has its own closure and its own
\* child process, so one exchange and its child stand for all of them: the
\* state of the child is the state of the server above.
\* ---------------------------------------------------------------------
HttpMethods == {"POST", "OPTIONS", "GET"}

HttpUrls == {"/mcp", "/"}

\* the bodies posted: JSON texts of every kind, and texts that are not JSON
HttpBodies == AllLines

\* JSON.stringify(requestData) + '\n': the line written to the child
JsonStringify(value) == JsonLine(value)

\* JSON.parse(responseData.trim()): everything the child wrote is one JSON
\* text only if it wrote one line and that line is a response
ParseOutput(written) ==
  IF Len(written) = 1 /\ written[1].kind = "response"
  THEN [ok |-> TRUE, value |-> written[1].resp, message |-> ""]
  ELSE [ok |-> FALSE, value |-> NoResponse, message |-> ParseMessage]

\* the request listener and, for a POST to /mcp, the 'end' listener of the
\* request: the body is parsed, a child is spawned and the request is
\* written to its stdin, which is left open
HttpRequest ==
  /\ http.st = "none"
  /\ \E method \in HttpMethods, url \in HttpUrls :
       IF method = "POST" /\ url = "/mcp"
       THEN \E body \in HttpBodies :
              LET parsed == JsonParse(body)
              IN IF parsed.ok
                 THEN /\ http' = Exchange("waiting", method, url, body, 0, NoOutput, 0,
                                          "running")
                      /\ stdin' = <<JsonStringify(parsed.value)>>
                      /\ stdout' = <<LogLine(Banner)>>
                      /\ alive' = TRUE
                 ELSE /\ http' = Exchange("ended", method, url, body, 400,
                                          [NoOutput EXCEPT
                                             !.error = "Invalid JSON in request body",
                                             !.details = parsed.message],
                                          1, "running")
                      /\ UNCHANGED <<stdin, stdout, alive>>
       ELSE /\ http' = IF method = "OPTIONS"
                       THEN Exchange("ended", method, url, TextLine("empty"), 204,
                                     NoOutput, 1, "running")
                       ELSE Exchange("ended", method, url, TextLine("empty"), 404,
                                     [NoOutput EXCEPT !.error = "Not found"], 1, "running")
            /\ UNCHANGED <<stdin, stdout, alive>>
  /\ UNCHANGED <<server, now, reqs, microtasks, draining, calls, settled, readWith,
                 registered, store, apiCalls, sse>>

\* the child is ended from outside, by a signal: its exit code is null
ChildKilled ==
  /\ http.st = "waiting"
  /\ alive
  /\ alive' = FALSE
  /\ http' = [http EXCEPT !.code = "null"]
  /\ UNCHANGED <<server, stdin, now, reqs, microtasks, draining, stdout, calls, settled,
                 readWith, registered, store, apiCalls, sse>>

\* the 'close' listener of the child: the only place where the response to
\* a parsed POST is ended
Close ==
  /\ http.st = "waiting"
  /\ ~alive
  /\ LET parsed == ParseOutput(stdout)
     IN http' =
          IF http.code = "0"
          THEN IF parsed.ok
               THEN [http EXCEPT !.st = "ended", !.status = 200, !.ends = @ + 1,
                                 !.out = [NoOutput EXCEPT !.json = parsed.value]]
               ELSE [http EXCEPT !.st = "ended", !.status = 500, !.ends = @ + 1,
                                 !.out = [NoOutput EXCEPT
                                            !.error = "Failed to parse MCP server response",
                                            !.details = parsed.message]]
          ELSE [http EXCEPT !.st = "ended", !.status = 500, !.ends = @ + 1,
                            !.out = [NoOutput EXCEPT
                                       !.error = "MCP server exited with code " \o http.code,
                                       !.output = stdout]]
  /\ UNCHANGED <<server, stdin, now, reqs, microtasks, draining, stdout, calls, alive,
                 settled, readWith, registered, store, apiCalls, sse>>

\* the wrapper is listening and no child has been spawned yet
HttpInit ==
  /\ server = ShippedServer
  /\ stdin = <<>>
  /\ now = 0
  /\ reqs = <<>>
  /\ microtasks = <<>>
  /\ draining = FALSE
  /\ stdout = <<>>
  /\ calls = <<>>
  /\ alive = FALSE
  /\ settled = <<>>
  /\ readWith = <<>>
  /\ registered = RegisteredBy(server)
  /\ store \in {ReachableStore, Store(FALSE, <<"42">>, {"rejected"})}
  /\ apiCalls = <<>>
  /\ http = NoExchange
  /\ sse = NoSse

HttpNext ==
  \/ HttpRequest
  \/ ReadLine
  \/ \E i \in 1..Len(reqs) : Settle(i)
  \/ RunMicrotask
  \/ ChildKilled
  \/ Close

HttpSpec == HttpInit /\ [][HttpNext]_vars

\* the child reads its line and runs its microtasks, the task store answers
\* every request it is sent, and 'close' is emitted once the child has ended
HttpFairSpec ==
  /\ HttpSpec
  /\ WF_stdin(Deliver)
  /\ WF_vars(RunMicrotask)
  /\ WF_vars(\E i \in 1..Len(reqs) : Settle(i))
  /\ WF_vars(Close)

\* a POST to /mcp whose body is JSON has reached the wrapper
ValidPost ==
  /\ http.st # "none"
  /\ http.method = "POST"
  /\ http.url = "/mcp"
  /\ JsonParse(http.body).ok

\* C25: every POST to /mcp of the HTTP wrapper whose body is valid JSON
\* eventually receives its one HTTP response (the response is ended once).
C25_PostIsAnswered == ValidPost ~> (http.ends = 1)

\* ---------------------------------------------------------------------
\* Lines without content
\* ---------------------------------------------------------------------

\* the line is empty or holds only whitespace
IsBlank(line) == line.text \in {"empty", "blank"}

\* readline emits a line that is empty or holds only whitespace
ReadsBlank == stdin # <<>> /\ stdin' = Tail(stdin) /\ IsBlank(Head(stdin))

\* nothing is written, called or scheduled for a line without content
NothingFor(i) ==
  /\ \A k \in 1..Len(stdout) : stdout[k].req # i
  /\ CallsFor(i) = {}
  /\ \A k \in 1..Len(microtasks) : microtasks[k].req # i
  /\ reqs[i].call = NoCall

BlankLinesAreSilent == \A i \in 1..Len(reqs) : IsBlank(reqs[i].line) => NothingFor(i)

BlankStepIsSilent ==
  ReadsBlank => /\ stdout' = stdout
                /\ calls' = calls
                /\ apiCalls' = apiCalls
                /\ microtasks' = microtasks
                /\ alive' = alive

\* C31: an input line that is empty or contains only whitespace produces no
\* output line at all and causes no handler to be invoked.
C31_BlankLineIsSkipped == [](BlankLinesAreSilent) /\ [][BlankStepIsSilent]_vars

\* a line of whitespace has been read and the output is still only the banner
C31_Witness ==
  /\ Len(reqs) = 1
  /\ reqs[1].line = TextLine("blank")
  /\ stdin = <<>>
  /\ stdout = <<LogLine(Banner)>>
  /\ calls = <<>>

\* ---------------------------------------------------------------------
\* Resolution over every registered template
\* ---------------------------------------------------------------------

\* the name between the braces of a placeholder segment
PlaceholderName(segment) == SubSeq(segment, 2, Len(segment) - 1)

\* the call binds every placeholder of the pattern to the segment of the URI
\* at its position
BindsPlaceholders(call, uri, pattern) ==
  \A n \in 1..Len(Segments(pattern)) :
    IsPlaceholder(Segments(pattern)[n]) =>
      \E b \in 1..Len(call.bindings) :
        /\ call.bindings[b].name = PlaceholderName(Segments(pattern)[n])
        /\ call.bindings[b].value = JsChars(Segments(uri)[n])

\* C32: resolution tries every registered resource template: when the URI of
\* a resource request matches the template of a registered resource, whatever
\* that template is (tasks://category/{name} as much as tasks://list and
\* tasks://task/{taskId}), the handler of a matching resource is called with
\* the placeholders of its template bound to the segments of the URI.
C32_EveryTemplateIsTried ==
  \A i \in 1..Len(reqs) :
    (AsksFor(i) /\ MatchingNonEmpty(i) # {}) =>
      \E k \in CallsFor(i) :
        \E n \in MatchingNonEmpty(i) :
          /\ calls[k].call.name = server.resources[n].name
          /\ BindsPlaceholders(calls[k].call, UriOf(i),
                               server.resources[n].template.pattern)

\* ---------------------------------------------------------------------
\* Requests that carry the same id
\* ---------------------------------------------------------------------

\* the well-formed requests that carry the id of request i
SameIdAs(i) == {j \in 1..Len(reqs) : WellFormed(j) /\ Sent(j).id = Sent(i).id}

\* the responses written with the id of request i
ResponsesWithIdOf(i) == {k \in ResponseLines : stdout[k].resp.id = Sent(i).id}

AllWellFormedAnswered ==
  /\ stdin = <<>>
  /\ \A i \in 1..Len(reqs) : WellFormed(i) /\ reqs[i].st = "answered"

\* C33: requests are never deduplicated: K well-formed requests that carry
\* the same id each run their own handler and each receive their own
\* response, so that K responses with that id are written.
C33_NoDeduplication ==
  /\ \A i \in 1..Len(reqs) :
       (WellFormed(i) /\ reqs[i].st = "answered") =>
         /\ Cardinality(ResponsesTo(i)) = 1
         /\ IsTyped(i, "discover") \/ Cardinality(CallsFor(i)) = 1
  /\ AllWellFormedAnswered =>
       \A i \in 1..Len(reqs) :
         Cardinality(ResponsesWithIdOf(i)) = Cardinality(SameIdAs(i))

\* ---------------------------------------------------------------------
\* The order of the manifest after re-registration
\* ---------------------------------------------------------------------

\* the names registered under a kind among the first n registrations, each
\* once, in the order of their first registration
RECURSIVE OrderOfFirstRegistration(_, _)
OrderOfFirstRegistration(kind, n) ==
  IF n = 0 THEN <<>>
  ELSE LET before == OrderOfFirstRegistration(kind, n - 1)
       IN IF /\ registered[n].kind = kind
             /\ \A k \in 1..Len(before) : before[k] # registered[n].name
          THEN Append(before, registered[n].name)
          ELSE before

\* C34: re-registering an existing name replaces the entry in place: in the
\* discovery manifest every name appears exactly once, in the order in which
\* the names of its kind were first registered.
C34_ReregistrationKeepsPosition ==
  /\ \A kind \in Kinds :
       Names(server[kind]) = OrderOfFirstRegistration(kind, Len(registered))
  /\ \A k \in Manifests :
       \A kind \in Kinds :
         Names(stdout[k].resp.body[kind]) =
           OrderOfFirstRegistration(kind, Len(registered))

\* the tool x was registered, then y, then x again with another entry, and
\* the manifest sent lists x before y, with the parameters of the last x
C34_Witness ==
  /\ Len(registered) = 3
  /\ registered[1].kind = "tools" /\ registered[1].name = "x"
  /\ registered[2].kind = "tools" /\ registered[2].name = "y"
  /\ registered[3].kind = "tools" /\ registered[3].name = "x"
  /\ registered[3].entry # registered[1].entry
  /\ \E k \in Manifests :
       /\ Names(stdout[k].resp.body.tools) = <<"x", "y">>
       /\ stdout[k].resp.body.tools[1].parameters =
            SchemaMapJson(registered[3].entry.parameters)

\* ---------------------------------------------------------------------
\* The metadata maps
\* ---------------------------------------------------------------------

KeySet(m) == {m[n].name : n \in 1..Len(m)}

\* the metadata map that goes with a map of handlers
InfoOf(kind) == IF kind = "tools" THEN "toolInfo" ELSE "promptInfo"

\* C39: after any sequence of tool and prompt registrations, toolInfo holds
\* exactly the names of tools and promptInfo exactly the names of prompts,
\* and the metadata found under a name is that of its most recent
\* registration: registering the name again without metadata leaves an
\* empty description and usage.
C39_InfoFollowsRegistration ==
  \A kind \in {"tools", "prompts"} :
    /\ KeySet(server[InfoOf(kind)]) = KeySet(server[kind])
    /\ \A name \in KeySet(server[kind]) :
         /\ RegistrationsOf(kind, name) # {}
         /\ MapGet(server[InfoOf(kind)], name) = Latest(kind, name).info

\* the prompt x was registered with a description and a usage and then
\* again without metadata: promptInfo holds the empty metadata
C39_Witness ==
  /\ Len(registered) >= 2
  /\ registered[1].kind = "prompts" /\ registered[1].name = "x"
  /\ registered[1].info.description # "" /\ registered[1].info.usage # ""
  /\ registered[2].kind = "prompts" /\ registered[2].name = "x"
  /\ registered[2].info = NoInfo("x")
  /\ Len(server.promptInfo) = 1
  /\ MapGet(server.promptInfo, "x") = NoInfo("x")

\* ---------------------------------------------------------------------
\* updateTask without updates
\* ---------------------------------------------------------------------

\* request i invokes updateTask and gives none of task, category, priority
\* and status, or gives them empty
UpdatesNothing(i) ==
  /\ IsTyped(i, "invoke")
  /\ Sent(i).tool = JsStr("updateTask")
  /\ \A key \in {"task", "category", "priority", "status"} :
       Field(ParametersOrEmpty(Sent(i).parameters), key) \in {Undefined, JsStr("")}

\* C35: an updateTask invocation in which none of task, category, priority
\* and status is given, or all are empty, sends no request to the task store
\* and returns the one text 'No updates provided. Task remains unchanged.'.
C35_NoUpdatesNoRequest ==
  \A i \in 1..Len(reqs) :
    UpdatesNothing(i) =>
      /\ ApiCallsFor(i) = {}
      /\ reqs[i].st # "pending"
      /\ \A k \in ResponsesTo(i) :
           /\ stdout[k].resp.type = JsStr("invoke_response")
           /\ stdout[k].resp.error = Undefined
           /\ Len(stdout[k].resp.body.items) = 1
           /\ stdout[k].resp.body.items[1].type = "text"
           /\ stdout[k].resp.body.items[1].text =
                <<"No updates provided. Task remains unchanged.">>

\* an updateTask with an empty task and an empty category has been answered
\* by a server that has an API key, and the store was not called
C35_Witness ==
  \E i \in 1..Len(reqs) :
    /\ UpdatesNothing(i)
    /\ Field(Sent(i).parameters, "task") = JsStr("")
    /\ store.apiKey
    /\ ResponsesTo(i) # {}
    /\ apiCalls = <<>>

\* ---------------------------------------------------------------------
\* No API key
\* ---------------------------------------------------------------------

\* the handler called for request i calls makeApiRequest
CallsTheStore(i) ==
  /\ reqs[i].call # NoCall
  /\ reqs[i].call.handler \in ShippedToolHandlers \cup ShippedResourceHandlers
  /\ ApiRequestOf(reqs[i].call) # NoApiRequest

\* C36: when no API key is configured, no request is ever sent to the task
\* store: every call of makeApiRequest fails before any request is made, and
\* the handler reports the failure in the text of the one item it returns,
\* not in an error field.
C36_NoKeyNoRequest ==
  ~store.apiKey =>
    /\ apiCalls = <<>>
    /\ \A i \in 1..Len(reqs) :
         (CallsTheStore(i) /\ Completed(i)) =>
           /\ reqs[i].outcome = "nokey"
           /\ reqs[i].resp.error = Undefined
           /\ Len(reqs[i].resp.body.items) = 1
           /\ LET text == reqs[i].resp.body.items[1].text
              IN text[Len(text)] = KeyMessage
           /\ \A k \in ResponsesTo(i) : stdout[k].resp = reqs[i].resp

\* without an API key, a createTask and a request for tasks://list have each
\* been answered
C36_Witness ==
  /\ ~store.apiKey
  /\ \E i \in 1..Len(reqs) :
       /\ CallsTheStore(i)
       /\ reqs[i].call.handler \in {"tool:createTask", "resource:tasks"}
       /\ reqs[i].st = "answered"
       /\ ResponsesTo(i) # {}

\* ---------------------------------------------------------------------
\* The requests the HTTP wrapper rejects
\* ---------------------------------------------------------------------

\* a request has reached the wrapper that is not a POST to /mcp with a JSON
\* body
RejectedRequest ==
  /\ http.st # "none"
  /\ ~(http.method = "POST" /\ http.url = "/mcp" /\ http.body.text = "json")

\* no MCP server process was spawned
NothingSpawned ==
  /\ ~alive
  /\ stdin = <<>>
  /\ stdout = <<>>
  /\ reqs = <<>>
  /\ calls = <<>>

\* C37: the HTTP wrapper answers every request it rejects exactly once and
\* without spawning an MCP server process: a POST to /mcp whose body is not
\* valid JSON with status 400, an OPTIONS request with status 204, and any
\* other method or path with status 404.
C37_RejectedOnceWithoutChild ==
  RejectedRequest =>
    /\ http.st = "ended"
    /\ http.ends = 1
    /\ NothingSpawned
    /\ http.status = IF http.method = "POST" /\ http.url = "/mcp" THEN 400
                     ELSE IF http.method = "OPTIONS" THEN 204
                     ELSE 404

\* a POST to /mcp whose body is not JSON has been answered with status 400
C37_Witness ==
  /\ RejectedRequest
  /\ http.method = "POST" /\ http.url = "/mcp"
  /\ http.body = NotJson
  /\ http.status = 400
  /\ http.out.error = "Invalid JSON in request body"

\* ---------------------------------------------------------------------
\* The SSE server: connections and activeTransports
\* ---------------------------------------------------------------------
MaxConnections == 3

MaxClock == 2

\* Map.prototype.delete
MapDelete(m, name) == SelectSeq(m, LAMBDA e : e.name # name)

\* the x-connection-id headers a client may send: none, or a timestamp
ConnectionIds == {""} \cup {Decimal(t) : t \in 0..MaxClock}

\* app.get('/sse'): the connectionId is the clock reading as text; the
\* transport of the connection is stored under it and the 'close' listener
\* of the request is registered
SseConnect ==
  /\ Len(sse.connections) < MaxConnections
  /\ \E t \in {now, now + 1} :
       /\ t <= MaxClock
       /\ now' = t
       /\ LET connectionId == Decimal(t)
              transport == Len(sse.connections) + 1
          IN sse' = [sse EXCEPT
                       !.connections = Append(@, [id |-> connectionId, open |-> TRUE]),
                       !.activeTransports =
                         MapSet(@, [name |-> connectionId, transport |-> transport])]
  /\ UNCHANGED <<server, stdin, reqs, microtasks, draining, stdout, calls, alive, settled,
                 readWith, registered, store, apiCalls, http>>

\* the 'close' listener of the request of connection c: the transport is
\* closed and the connectionId of c is deleted from the Map
SseClose(c) ==
  /\ sse.connections[c].open
  /\ sse' = [sse EXCEPT
               !.connections[c].open = FALSE,
               !.activeTransports = MapDelete(@, sse.connections[c].id)]
  /\ UNCHANGED <<server, stdin, now, reqs, microtasks, draining, stdout, calls, alive,
                 settled, readWith, registered, store, apiCalls, http>>

\* app.post('/messages'): the message is handed to the transport found
\* under the x-connection-id header, or refused with status 400
SseMessage ==
  /\ \E key \in ConnectionIds :
       sse' = [sse EXCEPT
                 !.posted =
                   IF key = "" \/ ~MapHas(sse.activeTransports, key)
                   THEN [key |-> key, status |-> 400, transport |-> 0]
                   ELSE [key |-> key, status |-> 200,
                         transport |-> MapGet(sse.activeTransports, key).transport]]
  /\ UNCHANGED <<server, stdin, now, reqs, microtasks, draining, stdout, calls, alive,
                 settled, readWith, registered, store, apiCalls, http>>

\* the SSE server is listening and no client has connected
SseInit ==
  /\ server = ShippedServer
  /\ stdin = <<>>
  /\ now = 0
  /\ reqs = <<>>
  /\ microtasks = <<>>
  /\ draining = FALSE
  /\ stdout = <<>>
  /\ calls = <<>>
  /\ alive = TRUE
  /\ settled = <<>>
  /\ readWith = <<>>
  /\ registered = RegisteredBy(server)
  /\ store = ReachableStore
  /\ apiCalls = <<>>
  /\ http = NoExchange
  /\ sse = NoSse

SseNext ==
  \/ SseConnect
  \/ \E c \in 1..Len(sse.connections) : SseClose(c)
  \/ SseMessage

SseSpec == SseInit /\ [][SseNext]_vars

\* the connections whose client is still connected
OpenConnections == {c \in 1..Len(sse.connections) : sse.connections[c].open}

\* the entries of activeTransports that hold the transport of connection c
EntriesOf(c) ==
  {n \in 1..Len(sse.activeTransports) : sse.activeTransports[n].transport = c}

\* C38: after any interleaving of SSE connections opening and closing,
\* activeTransports holds exactly one entry for each connection that is
\* still open, connections opened within the same millisecond included, and
\* no entry for a closed connection: closing a connection removes its
\* transport and no other.
C38_OneTransportPerOpenConnection ==
  /\ \A c \in OpenConnections : Cardinality(EntriesOf(c)) = 1
  /\ \A c \in 1..Len(sse.connections) : c \notin OpenConnections => EntriesOf(c) = {}
  /\ Len(sse.activeTransports) = Cardinality(OpenConnections)

====
